---------------------------- MODULE Spec2Model ----------------------------
(***************************************************************************)
(* Model of the procedural geometry engine of MGAIA-PCG (src/src/app):     *)
(*   - the primitive generators pyramid, cone and triangle (generators.py) *)
(*   - the Bridge between two towers (structs/bridge.py, structs/tower.py) *)
(*   - the trunk growth of CastleTree and BigTree (structs/castle.py,      *)
(*     structs/bigtree.py)                                                 *)
(*   - the builders and the two main programs (builders.py, main.py)       *)
(*   - the placement of TowerRoof, TowerStairway and Castle and the        *)
(*     lantern chains of the interiors (structs/tower.py, castle.py,       *)
(*     interior.py)                                                        *)
(* A coordinate (ivec3) is a tuple <<x, y, z>>.  A generator is modelled   *)
(* by the sequence of coordinates it yields, in the order of the loops.    *)
(***************************************************************************)
EXTENDS Integers, Sequences, FiniteSets, TLC

VARIABLES
    call,       \* generators: the call being made (function name and arguments)
    gpc,        \* generators: "ready" before the call, "done" after it
    yielded,    \* generators: the coordinates the generator yielded, in order
    raised,     \* generators: the exception the call raised, "" if none
    cyl,        \* generators: what fittingCylinder returned for each cone layer
    towers,     \* bridge: the two Tower objects handed to Bridge(...)
    hasRoof,    \* bridge: Bridge.hasRoof
    bpc,        \* bridge: "new", then "built" or "failed", then "placed"
    brFrom,     \* bridge: Bridge.from_ (entrance point the walk starts at)
    brTo,       \* bridge: Bridge.to_ (entrance point the walk ends at)
    berr,       \* bridge: the exception Bridge(...) raised, "" if none
    placed,     \* bridge: the placeBlock calls of Bridge.place, in order
    evaluations,    \* bridge: what each evaluation of Bridge.basePC by a caller returned
    variant,    \* tree: "CastleTree" or "BigTree"
    maxTrunkHeight, \* tree: the constructor parameter
    tpc,        \* tree: "loop" in the growth loop, "read" after BigTree's loop, "done"
    ty,         \* tree: the loop variable y
    slice_,     \* tree: the occupied cells <<x, z>> of the 5x5 cross-section
    dropRate,   \* tree: n when dropRate is 0.99^(2^n) (CastleTree), 0.75^(2^n) (BigTree)
    trunk,      \* tree: trunkA / trunk, the layers assigned so far (layer -> cells)
    trunkHeight,    \* tree: the attribute trunkHeight
    trunkGenerator, \* tree: BigTree.trunkGenerator
    stream,     \* tree: the values the random stream has returned, in order
    pos,        \* tree: how many values of the stream this construction has drawn
    run,        \* tree: 1 for the first construction, 2 for the one repeated on the same stream
    first,      \* tree: trunkHeight and trunk coordinates of the first construction
    center,     \* builders: the centre of the build area (ivec3)
    interiorTypes,  \* builders: the list interiorTypes of buildTowers
    btowers,    \* builders: the values of the dict towers, in the order of its keys
    noRoof,     \* builders: the local noRoof of buildBridges
    bridges,    \* builders: the Bridge objects buildBridges has constructed and placed
    entities,   \* builders: the other objects placed, in order: kind, district, origin
    bldpc,      \* builders: which builder runs, or <<"loop", i>> inside one
    entry,      \* run: which main.py is run, "app" or "legacy"
    connected,  \* run: whether the GDMC HTTP interface answers
    areaSet,    \* run: whether the build area has been set in the game
    world,      \* run: the build area set in the game and the top of its heightmap
    mpc,        \* run: the statement of main that is next
    exitCode,   \* run: the exit code of the process, -1 while it runs
    mlog,       \* run: the calls made on the editor and the stages run, in order
    struct,     \* structs: the object under construction or placed, its attributes
    spc,        \* structs: <<method, k>>, the k-th step of the method is next
    writes      \* structs: the placeBlock calls made, in order: block and positions

genVars == <<call, gpc, yielded, raised, cyl>>
bridgeVars == <<towers, hasRoof, bpc, brFrom, brTo, berr, placed, evaluations>>
treeVars == <<variant, maxTrunkHeight, tpc, ty, slice_, dropRate, trunk, trunkHeight,
              trunkGenerator, stream, pos, run, first>>
buildVars == <<center, interiorTypes, btowers, noRoof, bridges, entities, bldpc>>
mainVars == <<entry, connected, areaSet, world, mpc, exitCode, mlog>>
structVars == <<struct, spc, writes>>
vars == <<genVars, bridgeVars, treeVars, buildVars, mainVars, structVars>>

(***************************************************************************)
(* Bounds of the model.                                                    *)
(***************************************************************************)
\* largest height / size handed to a generator
MaxHeight == 3
\* number of tower positions, per axis, beyond the one nearest to the axis
TowerSpread == 1
\* how far maxTrunkHeight ranges beyond the 20 that buildCastle passes
ExtraTrunk == 1
\* how many values of the injected random stream may be the largest value
\* of np.random.rand(); the others are 0.0
MaxTopDraws == 1
\* how often a caller evaluates Bridge.basePC besides the evaluation of
\* Bridge.baseG that Bridge.place makes
MaxEvaluations == 1
\* how many values of each coordinate of a sector buildTowers is tried with
SectorSamples == 2

(***************************************************************************)
(* Python helpers.                                                         *)
(***************************************************************************)
abs(n) == IF n < 0 THEN -n ELSE n

\* range(a, b): the sequence a, a+1, ..., b-1 (empty when b <= a)
range(a, b) == [i \in 1..(IF b > a THEN b - a ELSE 0) |-> a + i - 1]

RECURSIVE Flatten(_)
\* concatenation of a sequence of sequences (nested for-loops that yield)
Flatten(ss) == IF ss = <<>> THEN <<>> ELSE Head(ss) \o Flatten(Tail(ss))

\* the set of elements of a sequence
Elems(s) == {s[i] : i \in DOMAIN s}

\* ivec3 addition and the unit vector Y
add(p, q) == <<p[1] + q[1], p[2] + q[2], p[3] + q[3]>>
Y == <<0, 1, 0>>

(***************************************************************************)
(* generators.py                                                           *)
(***************************************************************************)
\* pyramidLayer with the upper end of the x and z ranges one too small
pyramidLayerShort(origin, height, hollow, y) ==
    LET from_ == -height + y + 1
        to_   == height - y - 1
        xs    == range(from_, to_)
        zs    == range(from_, to_)
        row(x) ==
            LET keep(z) == ~(hollow /\ ~(abs(x) = to_ - 1 \/ abs(z) = to_ - 1))
            IN  [i \in DOMAIN SelectSeq(zs, keep) |->
                    add(origin, <<x, y, SelectSeq(zs, keep)[i]>>)]
    IN  Flatten([i \in DOMAIN xs |-> row(xs[i])])

\* pyramidLayer with a hollow test that keeps the corners of the ring only
pyramidLayerCorners(origin, height, hollow, y) ==
    LET from_ == -height + y + 1
        to_   == height - y
        xs    == range(from_, to_)
        zs    == range(from_, to_)
        row(x) ==
            LET keep(z) == ~(hollow /\ ~(abs(x) = to_ - 1 /\ abs(z) = to_ - 1))
            IN  [i \in DOMAIN SelectSeq(zs, keep) |->
                    add(origin, <<x, y, SelectSeq(zs, keep)[i]>>)]
    IN  Flatten([i \in DOMAIN xs |-> row(xs[i])])

\* one layer of pyramid: the two inner loops over x and z
pyramidLayer(origin, height, hollow, y) ==
    LET from_ == -height + y + 1
        to_   == height - y
        xs    == range(from_, to_)
        zs    == range(from_, to_)
        row(x) ==
            LET keep(z) == ~(hollow /\ ~(abs(x) = to_ - 1 \/ abs(z) = to_ - 1))
            IN  [i \in DOMAIN SelectSeq(zs, keep) |->
                    add(origin, <<x, y, SelectSeq(zs, keep)[i]>>)]
    IN  Flatten([i \in DOMAIN xs |-> row(xs[i])])

\* pyramid(origin, height, hollow): the sequence of yielded coordinates
pyramid(origin, height, hollow) ==
    LET ys == range(0, height)
    IN  Flatten([i \in DOMAIN ys |-> pyramidLayer(origin, height, hollow, ys[i])])

(***************************************************************************)
(* fittingCylinder belongs to the gdpc library.  cone hands it the two     *)
(* corners of one horizontal layer; the points it returns lie in the box   *)
(* spanned by the corners.  Which of them it returns is left to the        *)
(* library: section is the set of <<dx, dz>> offsets from the box centre.  *)
(***************************************************************************)
fittingCylinder(from_, to_, section) ==
    LET cx == (from_[1] + to_[1]) \div 2
        cz == (from_[3] + to_[3]) \div 2
        w  == to_[1] - from_[1] + 1
        d  == to_[3] - from_[3] + 1
        box == IF w <= 0 \/ d <= 0 THEN <<>>
               ELSE [i \in 1..(w * d) |->
                        <<from_[1] + ((i - 1) \div d), from_[2], from_[3] + ((i - 1) % d)>>]
        inSection(p) == <<p[1] - cx, p[3] - cz>> \in section
    IN  SelectSeq(box, inSection)

\* the cross-sections the library may return for a layer of half-width hw
Box2(hw) == (-hw..hw) \X (-hw..hw)
CrossSections(hw) ==
    { Box2(hw),
      { c \in Box2(hw) : c[1] * c[1] + c[2] * c[2] <= hw * hw },
      { c \in Box2(hw) : c[1] * c[1] + c[2] * c[2] <= hw * hw + hw },
      { c \in Box2(hw) : abs(c[1]) = hw \/ abs(c[2]) = hw },
      {} }
    \cup { {c} : c \in Box2(hw) \cap Box2(1) }

RECURSIVE SectionChoices(_, _)
\* the choices of one cross-section for each of the first n layers of a cone
\* of the given height; layer y = n - 1 has half-width height - y - 1
SectionChoices(height, n) ==
    IF n <= 0 THEN {<<>>}
    ELSE { Append(s, c) : s \in SectionChoices(height, n - 1),
                          c \in CrossSections(height - n) }

\* the points collected by the first loop of cone
coneAllPoints(origin, height, sections) ==
    LET ys == range(0, height)
        layer(y) ==
            LET from_ == add(origin, <<-height + y + 1, y, -height + y + 1>>)
                to_   == add(origin, << height - y - 1, y,  height - y - 1>>)
            IN  fittingCylinder(from_, to_, sections[y + 1])
    IN  Flatten([i \in DOMAIN ys |-> layer(ys[i])])

\* cone without the removal of the points that have a point above them
coneUnfiltered(origin, height, hollow, sections) ==
    coneAllPoints(origin, height, sections)

\* cone(origin, height, hollow): the sequence of yielded coordinates
cone(origin, height, hollow, sections) ==
    LET allPoints     == coneAllPoints(origin, height, sections)
        allPointsCopy == Elems(allPoints)
        noneAbove(point) == ~(add(point, Y) \in allPointsCopy)
    IN  IF hollow THEN SelectSeq(allPoints, noneAbove) ELSE allPoints

\* the direction tags triangle accepts, and their signs
TriangleDirections == {"nw", "ne", "sw", "se"}

\* triangleSigns with the signs of ne and sw exchanged
triangleSignsSwapped(direction) ==
    CASE direction = "nw" -> <<-1, -1>>
      [] direction = "ne" -> <<-1,  1>>
      [] direction = "sw" -> << 1, -1>>
      [] direction = "se" -> << 1,  1>>

triangleSigns(direction) ==
    CASE direction = "nw" -> <<-1, -1>>
      [] direction = "ne" -> << 1, -1>>
      [] direction = "sw" -> <<-1,  1>>
      [] direction = "se" -> << 1,  1>>

\* triangle that takes the size without its sign
triangleAbs(origin, size, direction) ==
    LET xSign == triangleSigns(direction)[1]
        zSign == triangleSigns(direction)[2]
        xs    == range(0, abs(size))
        row(x) == [i \in DOMAIN range(0, abs(size) - x) |->
                     add(origin, <<x * xSign, 0, range(0, abs(size) - x)[i] * zSign>>)]
    IN  Flatten([i \in DOMAIN xs |-> row(xs[i])])

\* triangle(origin, size, direction) after its assertion has passed
triangle(origin, size, direction) ==
    LET xSign == triangleSigns(direction)[1]
        zSign == triangleSigns(direction)[2]
        xs    == range(0, size)
        row(x) == [i \in DOMAIN range(0, size - x) |->
                     add(origin, <<x * xSign, 0, range(0, size - x)[i] * zSign>>)]
    IN  Flatten([i \in DOMAIN xs |-> row(xs[i])])

(***************************************************************************)
(* structs/tower.py: what a Bridge reads of a Tower.  A district tag is    *)
(* the pair of its two characters, so district[0] is district[1] here.     *)
(***************************************************************************)
Districts == { <<"n", "w">>, <<"s", "w">>, <<"s", "e">>, <<"n", "e">> }

\* radius of the TowerRoom that buildTowers constructs
RoomRadius == 11
\* height of the TowerBase: Tower.o is room.o = base origin + Y * height
BaseHeight == 20

entranceDirections(t) ==
    CASE t.district = <<"n", "w">> -> <<"south", "east">>
      [] t.district = <<"s", "w">> -> <<"north", "east">>
      [] t.district = <<"s", "e">> -> <<"north", "west">>
      [] t.district = <<"n", "e">> -> <<"south", "west">>

zSign(t) == IF entranceDirections(t)[1] = "north" THEN -1 ELSE 1
xSign(t) == IF entranceDirections(t)[2] = "west" THEN -1 ELSE 1

\* Tower.entranceOrigins
entranceOrigins(t) ==
    [x |-> add(t.o, <<xSign(t) * t.radius, 0, 0>>),
     z |-> add(t.o, <<0, 0, zSign(t) * t.radius>>)]

(***************************************************************************)
(* structs/bridge.py                                                       *)
(***************************************************************************)
\* direction that compares the first characters first (x and z exchanged)
directionSwapped(ts) ==
    IF ts[1].district[1] = ts[2].district[1] THEN "z"
    ELSE IF ts[1].district[2] = ts[2].district[2] THEN "x"
    ELSE "ValueError"

\* Bridge.direction (a record field of the generator calls has the name
\* direction already): "x", "z", or the ValueError it raises
Direction(ts) ==
    IF ts[1].district[2] = ts[2].district[2] THEN "z"
    ELSE IF ts[1].district[1] = ts[2].district[1] THEN "x"
    ELSE "ValueError"

\* the pair sorted from the larger key to the smaller
sortedTowersReversed(ts, axis) ==
    IF ts[2].o[axis] > ts[1].o[axis] THEN <<ts[2], ts[1]>> ELSE ts

\* sorted(self.towers, key=...): stable, so equal keys keep their order
sortedTowers(ts, axis) ==
    IF ts[2].o[axis] < ts[1].o[axis] THEN <<ts[2], ts[1]>> ELSE ts

\* round(n / d) as Python computes it for a float quotient: to the nearest
\* integer, halves to the even one.  n and d are integers of a few digits,
\* so the float n / d is within 1e-13 of the exact quotient, which is either
\* a multiple of 1/2 (then exact in floating point) or at least 1/(2|d|)
\* away from one: round sees the exact quotient's nearest integer.
pyRound(n, d) ==
    LET nn == IF d < 0 THEN -n ELSE n
        dd == abs(d)
        q  == nn \div dd
        r  == nn % dd
    IN  IF 2 * r < dd THEN q
        ELSE IF 2 * r > dd THEN q + 1
        ELSE IF q % 2 = 0 THEN q ELSE q + 1

\* _getB with int() (truncation towards zero) in the place of round()
getBTruncated(dir, f, t, a) ==
    LET trunc(n, d) == IF (n < 0) # (d < 0) THEN -(abs(n) \div abs(d))
                       ELSE abs(n) \div abs(d)
    IN  IF dir = "x"
        THEN f[3] + trunc((t[3] - f[3]) * (a - f[1]), t[1] - f[1])
        ELSE f[1] + trunc((t[1] - f[1]) * (a - f[3]), t[3] - f[3])

\* Bridge._getB: from_ + (to_ - from_) * (a - from_) / (to_ - from_), rounded
getB(dir, f, t, a) ==
    IF dir = "x"
    THEN pyRound(f[3] * (t[1] - f[1]) + (t[3] - f[3]) * (a - f[1]), t[1] - f[1])
    ELSE pyRound(f[1] * (t[3] - f[3]) + (t[1] - f[1]) * (a - f[3]), t[3] - f[3])

\* Bridge.walkRange
walkRange(dir, f, t) ==
    IF dir = "x" THEN range(f[1] + 1, t[1]) ELSE range(f[3] + 1, t[3])

\* Bridge.p: switch between the x and z directions
P(dir, f, i, j, k) ==
    IF dir = "x" THEN <<i, f[2] + k, j>> ELSE <<j, f[2] + k, i>>

\* line3D of gdpc for the segments the code asks for (axis-aligned or at
\* 45 degrees): the points from a to b, both included
line3D(a, b) ==
    LET n == CHOOSE m \in {abs(b[1] - a[1]), abs(b[2] - a[2]), abs(b[3] - a[3])} :
                 /\ m >= abs(b[1] - a[1]) /\ m >= abs(b[2] - a[2])
                 /\ m >= abs(b[3] - a[3])
    IN  IF n = 0 THEN <<a>>
        ELSE [i \in 1..(n + 1) |->
                <<a[1] + ((b[1] - a[1]) * (i - 1)) \div n,
                  a[2] + ((b[2] - a[2]) * (i - 1)) \div n,
                  a[3] + ((b[3] - a[3]) * (i - 1)) \div n>>]

\* one iteration of the loop of baseG, for step a of the walk range;
\* pillar is 0 when np.random.rand() >= 0.5, else the sign that
\* np.random.choice([-1, 1]) returned
baseStep(dir, f, t, roof, a, pillar) ==
    LET b == getB(dir, f, t, a)
    IN  <<P(dir, f, a, b, -1)>>
        \o line3D(P(dir, f, a, b - 2, 0), P(dir, f, a, b + 2, 0))
        \o <<P(dir, f, a, b - 2, 1), P(dir, f, a, b + 2, 1)>>
        \o (IF roof
            THEN line3D(P(dir, f, a, b - 1, 4), P(dir, f, a, b + 1, 4))
                 \o <<P(dir, f, a, b, 5)>>
                 \o (IF pillar # 0
                     THEN <<P(dir, f, a, b + pillar * 2, 2),
                            P(dir, f, a, b + pillar * 2, 3)>>
                     ELSE <<>>)
            ELSE <<>>)

\* Bridge.baseG for the random draws pillars (one entry per step)
baseG(dir, f, t, roof, pillars) ==
    LET as == walkRange(dir, f, t)
    IN  Flatten([i \in DOMAIN as |-> baseStep(dir, f, t, roof, as[i], pillars[i])])

\* Bridge.stairsPC: the four sets of decorative stairs
stairsPC(dir, f, t, roof) ==
    LET as == walkRange(dir, f, t)
        b(i) == getB(dir, f, t, as[i])
    IN  << [i \in DOMAIN as |-> P(dir, f, as[i], b(i) - 1, -1)],
           [i \in DOMAIN as |-> P(dir, f, as[i], b(i) + 1, -1)],
           IF roof
           THEN Flatten([i \in DOMAIN as |->
                    <<P(dir, f, as[i], b(i) - 2, 4), P(dir, f, as[i], b(i) - 1, 5)>>])
           ELSE <<>>,
           IF roof
           THEN Flatten([i \in DOMAIN as |->
                    <<P(dir, f, as[i], b(i) + 2, 4), P(dir, f, as[i], b(i) + 1, 5)>>])
           ELSE <<>> >>

\* Bridge.stairsDirections
stairsDirections(dir) ==
    IF dir = "x" THEN <<"south", "north">> ELSE <<"east", "west">>

\* the outcomes of the random draws of one evaluation of baseG
PillarDraws(dir, f, t, roof) ==
    [DOMAIN walkRange(dir, f, t) -> IF roof THEN {-1, 0, 1} ELSE {0}]

\* the placeBlock calls of Bridge.place, in order: the base, then the four
\* sets of stairs with the facing and the half set for each
placeCalls(dir, f, t, roof, pillars) ==
    << [block |-> <<"base">>, positions |-> baseG(dir, f, t, roof, pillars)] >>
    \o [i \in 1..4 |->
          [block |-> <<"stairs", stairsDirections(dir)[((i - 1) % 2) + 1],
                       IF i - 1 >= 2 THEN "bottom" ELSE "top">>,
           positions |-> stairsPC(dir, f, t, roof)[i]]]

\* Bridge._setTowers for a pair of towers that has a direction: the
\* entrance points <<from_, to_>>
setTowers(ts) ==
    IF Direction(ts) = "x"
    THEN LET st == sortedTowers(ts, 1)
         IN  <<entranceOrigins(st[1]).x, entranceOrigins(st[2]).x>>
    ELSE LET st == sortedTowers(ts, 3)
         IN  <<entranceOrigins(st[1]).z, entranceOrigins(st[2]).z>>

\* the tree variables while another part of the program is looked at
TreeIdle ==
    /\ variant = "none" /\ maxTrunkHeight = 0 /\ tpc = "idle" /\ ty = 0
    /\ slice_ = {} /\ dropRate = 0 /\ trunk = <<>> /\ trunkHeight = 0
    /\ trunkGenerator = <<>> /\ stream = <<>> /\ pos = 0 /\ run = 0
    /\ first = <<>>

\* the builder variables while another part of the program is looked at
BuildIdle ==
    /\ center = <<>> /\ interiorTypes = <<>> /\ btowers = <<>> /\ noRoof = -1
    /\ bridges = <<>> /\ entities = <<>> /\ bldpc = <<"idle", 0>>

\* the variables of the structures while another part is looked at
StructIdle ==
    /\ struct = [class |-> "none"] /\ spc = <<"idle", 0>> /\ writes = <<>>

\* the variables of the run of main while another part is looked at
MainIdle ==
    /\ entry = "none" /\ connected = FALSE /\ areaSet = FALSE /\ world = <<>>
    /\ mpc = "idle" /\ exitCode = -1 /\ mlog = <<>>

\* the generator variables while another part of the program is looked at
GenIdle ==
    /\ call = [fn |-> "none"] /\ gpc = "idle" /\ yielded = <<>>
    /\ raised = "" /\ cyl = <<>>

\* the bridge variables while another part of the program is looked at
BridgeIdle ==
    /\ towers = <<>> /\ hasRoof = FALSE /\ bpc = "idle"
    /\ brFrom = <<>> /\ brTo = <<>> /\ berr = "" /\ placed = <<>>
    /\ evaluations = <<>>

(***************************************************************************)
(* The generators as a state machine: one call with arguments drawn from   *)
(* the sets below, then the action of the called generator.                *)
(***************************************************************************)
Origins == { <<0, 0, 0>>, <<3, -2, 5>>, <<-4, 64, -7>> }
Heights == -1..MaxHeight
DirectionTags == TriangleDirections \cup {"n"}

Calls ==
    [fn : {"pyramid", "cone"}, origin : Origins, height : Heights,
     hollow : BOOLEAN, size : {0}, direction : {""}]
    \cup
    [fn : {"triangle"}, origin : Origins, height : {0},
     hollow : {FALSE}, size : Heights, direction : DirectionTags]

GenInit ==
    /\ call \in Calls
    /\ gpc = "ready"
    /\ yielded = <<>>
    /\ raised = ""
    /\ cyl = <<>>
    /\ BridgeIdle
    /\ TreeIdle
    /\ BuildIdle
    /\ MainIdle
    /\ StructIdle

Pyramid ==
    /\ gpc = "ready" /\ call.fn = "pyramid"
    /\ yielded' = pyramid(call.origin, call.height, call.hollow)
    /\ gpc' = "done"
    /\ UNCHANGED <<call, raised, cyl, bridgeVars, treeVars,
                   buildVars, mainVars, structVars>>

Cone ==
    /\ gpc = "ready" /\ call.fn = "cone"
    /\ \E sections \in SectionChoices(call.height, call.height) :
          /\ cyl' = sections
          /\ yielded' = cone(call.origin, call.height, call.hollow, sections)
    /\ gpc' = "done"
    /\ UNCHANGED <<call, raised, bridgeVars, treeVars,
                   buildVars, mainVars, structVars>>

\* the exception an unknown direction tag ends in: the assert of line 79,
\* or the dictionary lookup of line 80 when asserts are compiled out (-O)
TriangleErrors == {"AssertionError", "KeyError"}

\* Triangle that yields the origin before it looks at the direction tag
TriangleLateCheck ==
    /\ gpc = "ready" /\ call.fn = "triangle"
    /\ IF call.direction \in TriangleDirections
         THEN /\ yielded' = triangle(call.origin, call.size, call.direction)
              /\ raised' = raised
         ELSE /\ raised' \in TriangleErrors
              /\ yielded' = <<call.origin>>
    /\ gpc' = "done"
    /\ UNCHANGED <<call, cyl, bridgeVars, treeVars,
                   buildVars, mainVars, structVars>>

\* the body of triangle runs when the generator is first advanced: the
\* direction is looked at before the loops, so before any yield
Triangle ==
    /\ gpc = "ready" /\ call.fn = "triangle"
    /\ IF call.direction \in TriangleDirections
         THEN /\ yielded' = triangle(call.origin, call.size, call.direction)
              /\ raised' = raised
         ELSE /\ raised' \in TriangleErrors
              /\ yielded' = yielded
    /\ gpc' = "done"
    /\ UNCHANGED <<call, cyl, bridgeVars, treeVars,
                   buildVars, mainVars, structVars>>

GenNext == Pyramid \/ Cone \/ Triangle

SpecGen == GenInit /\ [][GenNext]_vars

(***************************************************************************)
(* Properties of the generators.                                           *)
(***************************************************************************)
\* the coordinate yielded at position i lies in layer y of the call
InLayer(i, y) == yielded[i][2] = call.origin[2] + y

\* no coordinate is yielded twice
NoDuplicates == Cardinality(Elems(yielded)) = Len(yielded)

RECURSIVE SumOddSquares(_)
\* 1 + 9 + 25 + ... + (2h-1)^2
SumOddSquares(h) == IF h <= 0 THEN 0 ELSE (2 * h - 1) * (2 * h - 1) + SumOddSquares(h - 1)

SolidPyramidDone ==
    gpc = "done" /\ call.fn = "pyramid" /\ ~call.hollow /\ call.height >= 1

\* C7: for every height h >= 1 the solid pyramid yields, in each layer y of
\* 0..h-1, exactly the (2(h-y)-1)^2 points origin + (x, y, z) with |x| and
\* |z| at most h-y-1, and nothing else; the total is the sum of the odd
\* squares and the top layer is the single point origin + (0, h-1, 0).
C7_SolidPyramid ==
    SolidPyramidDone =>
        LET h == call.height IN
        /\ Elems(yielded) =
               { add(call.origin, <<x, y, z>>) :
                   <<x, y, z>> \in { t \in (-h..h) \X (0..(h - 1)) \X (-h..h) :
                                       /\ abs(t[1]) <= h - t[2] - 1
                                       /\ abs(t[3]) <= h - t[2] - 1 } }
        /\ \A y \in 0..(h - 1) :
               Cardinality({ i \in DOMAIN yielded : InLayer(i, y) })
                   = (2 * (h - y) - 1) * (2 * (h - y) - 1)
        /\ Len(yielded) = SumOddSquares(h)
        /\ { yielded[i] : i \in { j \in DOMAIN yielded : InLayer(j, h - 1) } }
               = { add(call.origin, <<0, h - 1, 0>>) }

\* the solid pyramid of height 3 has yielded its 35 points
C7_Witness == SolidPyramidDone /\ call.height = 3 /\ Len(yielded) = 35

HollowPyramidDone ==
    gpc = "done" /\ call.fn = "pyramid" /\ call.hollow /\ call.height >= 1

\* C8: for every height h >= 1 the hollow pyramid yields, in each layer y,
\* exactly the points of the solid layer whose max(|x|, |z|) equals the
\* half-width h-y-1 of the layer, each once, and its top layer is the apex.
C8_HollowPyramid ==
    HollowPyramidDone =>
        LET h == call.height IN
        /\ Elems(yielded) =
               { add(call.origin, <<x, y, z>>) :
                   <<x, y, z>> \in { t \in (-h..h) \X (0..(h - 1)) \X (-h..h) :
                                       /\ abs(t[1]) <= h - t[2] - 1
                                       /\ abs(t[3]) <= h - t[2] - 1
                                       /\ \/ abs(t[1]) = h - t[2] - 1
                                          \/ abs(t[3]) = h - t[2] - 1 } }
        /\ NoDuplicates
        /\ { yielded[i] : i \in { j \in DOMAIN yielded : InLayer(j, h - 1) } }
               = { add(call.origin, <<0, h - 1, 0>>) }

\* the hollow pyramid of height 3 has yielded its rings of 16, 8 and 1 points
C8_Witness == HollowPyramidDone /\ call.height = 3 /\ Len(yielded) = 25

HollowConeDone == gpc = "done" /\ call.fn = "cone" /\ call.hollow

\* C9: the hollow cone never yields both a point and the point directly
\* above it, whatever cross-sections the cylinder primitive returned, and
\* every point it yields is a point of the solid cone.
C9_HollowCone ==
    HollowConeDone =>
        /\ \A p \in Elems(yielded) : add(p, Y) \notin Elems(yielded)
        /\ Elems(yielded) \subseteq Elems(coneAllPoints(call.origin, call.height, cyl))

\* a hollow cone whose solid form has a point below another one, and which
\* still yields points
C9_Witness ==
    /\ HollowConeDone
    /\ yielded # <<>>
    /\ \E p \in Elems(coneAllPoints(call.origin, call.height, cyl)) :
           add(p, Y) \in Elems(coneAllPoints(call.origin, call.height, cyl))

TriangleDone ==
    /\ gpc = "done" /\ call.fn = "triangle"
    /\ call.direction \in TriangleDirections /\ call.size >= 1

\* the signs the claim gives for the four directions
ClaimedSigns(direction) ==
    [nw |-> <<-1, -1>>, ne |-> <<1, -1>>, sw |-> <<-1, 1>>, se |-> <<1, 1>>][direction]

\* C10: triangle with size >= 1 yields exactly the points
\* origin + (x*xSign, 0, z*zSign) with 0 <= x < size and 0 <= z < size - x:
\* size*(size+1)/2 distinct points in the plane of the origin, each leg
\* holding size points, the origin included.
C10_Triangle ==
    TriangleDone =>
        LET n  == call.size
            sx == ClaimedSigns(call.direction)[1]
            sz == ClaimedSigns(call.direction)[2]
            o  == call.origin
        IN
        /\ Elems(yielded) =
               { <<o[1] + c[1] * sx, o[2], o[3] + c[2] * sz>> :
                   c \in { d \in (0..(n - 1)) \X (0..(n - 1)) : d[2] < n - d[1] } }
        /\ 2 * Len(yielded) = n * (n + 1)
        /\ NoDuplicates
        /\ Cardinality({ p \in Elems(yielded) : p[3] = o[3] }) = n
        /\ Cardinality({ p \in Elems(yielded) : p[1] = o[1] }) = n
        /\ o \in Elems(yielded)

\* a triangle of size 3 towards ne has yielded its 6 points
C10_Witness == TriangleDone /\ call.size = 3 /\ call.direction = "ne" /\ Len(yielded) = 6

\* the call has been made with a direction tag that is none of nw, ne, sw, se
BadDirectionDone ==
    /\ gpc = "done" /\ call.fn = "triangle"
    /\ call.direction \notin {"nw", "ne", "sw", "se"}

\* C11: triangle with a direction tag outside {nw, ne, sw, se} ends in an
\* error and has yielded no coordinate, whatever the size (positive, zero
\* or negative).
C11_InvalidDirection ==
    BadDirectionDone => raised # "" /\ yielded = <<>>

\* triangle of size 0 with the tag "n" has raised and yielded nothing
C11_Witness ==
    BadDirectionDone /\ call.size = 0 /\ raised = "AssertionError" /\ yielded = <<>>

\* the call has been made with a height (pyramid, cone) or a size (triangle,
\* valid direction) that is zero or negative
DegenerateDone ==
    /\ gpc = "done"
    /\ \/ call.fn \in {"pyramid", "cone"} /\ call.height <= 0
       \/ /\ call.fn = "triangle" /\ call.size <= 0
          /\ call.direction \in {"nw", "ne", "sw", "se"}

\* C12: pyramid and cone with height <= 0, hollow or not, and triangle with
\* size <= 0 and a valid direction, yield the empty sequence and raise no
\* error.
C12_DegenerateEmpty ==
    DegenerateDone => yielded = <<>> /\ raised = ""

\* a triangle of size -1 towards sw has been run to its end
C12_Witness ==
    /\ DegenerateDone /\ call.fn = "triangle" /\ call.size = -1
    /\ call.direction = "sw" /\ yielded = <<>>

(***************************************************************************)
(* The Bridge as a state machine: Bridge(towers, ...) for two towers drawn *)
(* from the sets below, then Bridge.place.                                 *)
(***************************************************************************)
\* A tower stands in the quadrant of its district (n: z < 0, s: z > 0,
\* w: x < 0, e: x > 0, as in the sectors of buildTowers), close enough to
\* the axes for the bridges to be a few steps long: its distance from each
\* axis is one of 1 + TowerSpread values beyond the room radius.
TowerDistances == (RoomRadius + 1)..(RoomRadius + 1 + TowerSpread)

TowerOrigins(district) ==
    { << (IF district[2] = "w" THEN -1 ELSE 1) * dx, BaseHeight,
         (IF district[1] = "n" THEN -1 ELSE 1) * dz >> :
        dx \in TowerDistances, dz \in TowerDistances }

Towers ==
    UNION { [district : {d}, o : TowerOrigins(d), radius : {RoomRadius}] : d \in Districts }

BridgeInit ==
    /\ towers \in Towers \X Towers
    /\ hasRoof \in BOOLEAN
    /\ bpc = "new"
    /\ brFrom = <<>> /\ brTo = <<>>
    /\ berr = ""
    /\ placed = <<>>
    /\ evaluations = <<>>
    /\ GenIdle
    /\ TreeIdle
    /\ BuildIdle
    /\ MainIdle
    /\ StructIdle

\* Bridge.__init__ with Bridge._setTowers
Construct ==
    /\ bpc = "new"
    /\ LET dir == Direction(towers) IN
       IF dir = "x"
       THEN LET ts == sortedTowers(towers, 1) IN
            /\ brFrom' = entranceOrigins(ts[1]).x
            /\ brTo' = entranceOrigins(ts[2]).x
            /\ bpc' = "built"
            /\ berr' = berr
       ELSE IF dir = "z"
       THEN LET ts == sortedTowers(towers, 3) IN
            /\ brFrom' = entranceOrigins(ts[1]).z
            /\ brTo' = entranceOrigins(ts[2]).z
            /\ bpc' = "built"
            /\ berr' = berr
       ELSE /\ bpc' = "failed"
            /\ berr' = "ValueError"
            /\ UNCHANGED <<brFrom, brTo>>
    /\ UNCHANGED <<towers, hasRoof, placed, evaluations, genVars, treeVars,
                   buildVars, mainVars, structVars>>

\* Bridge.place: the base, then the four sets of stairs
Place ==
    /\ bpc = "built"
    /\ LET dir == Direction(towers)
       IN  \E pillars \in PillarDraws(dir, brFrom, brTo, hasRoof) :
             placed' = placeCalls(dir, brFrom, brTo, hasRoof, pillars)
    /\ bpc' = "placed"
    /\ UNCHANGED <<towers, hasRoof, brFrom, brTo, berr, evaluations, genVars, treeVars,
                   buildVars, mainVars, structVars>>

BridgeNext == Construct \/ Place

SpecBridge == BridgeInit /\ [][BridgeNext]_vars

(***************************************************************************)
(* The Bridge with a caller that reads its base coordinates: bridge.basePC *)
(* is list(self.baseG), and baseG is a property, so every read runs the    *)
(* generator, and its calls of np.random, anew.  The towers stand at the   *)
(* positions nearest to the axes.                                          *)
(***************************************************************************)
NearTowers ==
    { t \in Towers : abs(t.o[1]) = RoomRadius + 1 /\ abs(t.o[3]) = RoomRadius + 1 }

BridgeEvalInit ==
    /\ towers \in NearTowers \X NearTowers
    /\ hasRoof \in BOOLEAN
    /\ bpc = "new"
    /\ brFrom = <<>> /\ brTo = <<>>
    /\ berr = ""
    /\ placed = <<>>
    /\ evaluations = <<>>
    /\ GenIdle
    /\ TreeIdle
    /\ BuildIdle
    /\ MainIdle
    /\ StructIdle

\* bridge.basePC read by a caller, before or after bridge.place
BasePC ==
    /\ bpc \in {"built", "placed"}
    /\ Len(evaluations) < MaxEvaluations
    /\ LET dir == Direction(towers)
       IN  \E pillars \in PillarDraws(dir, brFrom, brTo, hasRoof) :
             evaluations' =
                 Append(evaluations, baseG(dir, brFrom, brTo, hasRoof, pillars))
    /\ UNCHANGED <<towers, hasRoof, bpc, brFrom, brTo, berr, placed, genVars, treeVars,
                   buildVars, mainVars, structVars>>

BridgeEvalNext == Construct \/ Place \/ BasePC

SpecBridgeEval == BridgeEvalInit /\ [][BridgeEvalNext]_vars

(***************************************************************************)
(* Properties of the Bridge.                                               *)
(***************************************************************************)
\* the number of character positions in which the two district tags agree
TagsAgree ==
    Cardinality({ i \in 1..2 : towers[1].district[i] = towers[2].district[i] })

DifferInFirstOnly ==
    /\ towers[1].district[1] # towers[2].district[1]
    /\ towers[1].district[2] = towers[2].district[2]

DifferInSecondOnly ==
    /\ towers[1].district[1] = towers[2].district[1]
    /\ towers[1].district[2] # towers[2].district[2]

DifferInBoth ==
    /\ towers[1].district[1] # towers[2].district[1]
    /\ towers[1].district[2] # towers[2].district[2]

Constructed == bpc \in {"built", "placed"}

\* C1: the direction of a Bridge is 'z' when the two district tags differ
\* only in their first character and 'x' when they differ only in their
\* second one (its two ends are then the towers' entrances on that axis);
\* when the tags differ in both characters the construction fails with an
\* error, and no block of the bridge is ever placed.
C1_DirectionResolution ==
    bpc # "new" =>
        /\ DifferInFirstOnly =>
              /\ Constructed /\ berr = ""
              /\ Direction(towers) = "z"
              /\ {brFrom, brTo} = { entranceOrigins(towers[i]).z : i \in 1..2 }
        /\ DifferInSecondOnly =>
              /\ Constructed /\ berr = ""
              /\ Direction(towers) = "x"
              /\ {brFrom, brTo} = { entranceOrigins(towers[i]).x : i \in 1..2 }
        /\ DifferInBoth =>
              /\ bpc = "failed" /\ berr = "ValueError"
              /\ placed = <<>>

\* the construction of a bridge between two diagonally opposite towers failed
C1_Witness == bpc = "failed" /\ berr = "ValueError" /\ DifferInBoth

\* C2: a Bridge is constructed only for two towers whose district tags
\* agree in exactly one of their two positions; a pair of tags that agrees
\* in no position or in both is rejected with an error.
C2_ExactlyOneSharedAxis ==
    /\ Constructed => TagsAgree = 1
    /\ (bpc # "new" /\ TagsAgree \in {0, 2}) => (bpc = "failed" /\ berr = "ValueError")

\* the steps of the walk of the constructed bridge, as <<a, b>> pairs, with
\* the coordinates of the two ends along the walk (fa, ta) and across (fp, tp)
WalkAxis == IF Direction(towers) = "x" THEN 1 ELSE 3
PerpAxis == IF Direction(towers) = "x" THEN 3 ELSE 1

\* twice the distance between b and the exact interpolation at a, times the
\* length ta - fa of the bridge
TwiceError(a, b) ==
    LET fa == brFrom[WalkAxis]
        ta == brTo[WalkAxis]
        fp == brFrom[PerpAxis]
        tp == brTo[PerpAxis]
    IN  2 * abs(b * (ta - fa) - (fp * (ta - fa) + (tp - fp) * (a - fa)))

\* C3: for every step a of the walk range, strictly between the two entrance
\* points, the perpendicular coordinate b of the walkway centre is an
\* integer nearest to the exact linear interpolation between the entrance
\* points: |b - exact| <= 1/2.  The floor block that place puts under the
\* walkway at step a lies at that b.
C3_NearestInterpolation ==
    Constructed =>
        LET dir == Direction(towers)
            as  == walkRange(dir, brFrom, brTo)
        IN
        /\ \A i \in DOMAIN as :
              /\ brFrom[WalkAxis] < as[i] /\ as[i] < brTo[WalkAxis]
              /\ TwiceError(as[i], getB(dir, brFrom, brTo, as[i]))
                    <= brTo[WalkAxis] - brFrom[WalkAxis]
        /\ bpc = "placed" =>
              /\ \A i \in DOMAIN as :
                    \E q \in Elems(placed[1].positions) :
                        q[2] = brFrom[2] - 1 /\ q[WalkAxis] = as[i]
              /\ \A q \in Elems(placed[1].positions) :
                    q[2] = brFrom[2] - 1 =>
                        TwiceError(q[WalkAxis], q[PerpAxis])
                            <= brTo[WalkAxis] - brFrom[WalkAxis]

\* a placed bridge with a step whose exact interpolation is not an integer
C3_Witness ==
    /\ bpc = "placed"
    /\ \E q \in Elems(placed[1].positions) :
          q[2] = brFrom[2] - 1 /\ TwiceError(q[WalkAxis], q[PerpAxis]) > 0

\* the coordinate sets of the base that have been produced so far: by the
\* reads of basePC and by the placeBlock(self.baseG, ...) of place
BaseCoordinateSets ==
    { Elems(evaluations[i]) : i \in DOMAIN evaluations }
    \cup (IF bpc = "placed" THEN { Elems(placed[1].positions) } ELSE {})

\* C13: the ornamental pillars of a Bridge are fixed at construction: after
\* construction every evaluation of the base coordinates (basePC, and the
\* baseG that place hands to placeBlock) yields the same coordinate set.
C13_BaseCached ==
    Constructed => Cardinality(BaseCoordinateSets) <= 1

(***************************************************************************)
(* builders.py: buildBridges(editor, towers).  towers is the dict that     *)
(* buildTowers returns, its keys in the order nw, sw, se, ne.  The towers  *)
(* stand at the positions nearest to the axes.                             *)
(***************************************************************************)
\* the keys of the dict towers, in the order buildTowers inserts them
DistrictKeys == << <<"n", "w">>, <<"s", "w">>, <<"s", "e">>, <<"n", "e">> >>

\* np.random.randint(low, high): an integer from low up to high - 1
npRandintInclusive(low, high) == low..high

npRandint(low, high) == low..(high - 1)

\* nw, sw, se, ne = towers.values() and the list of pairs of the loop
towerSets(ts) ==
    LET nw == ts[1]
        sw == ts[2]
        se == ts[3]
        ne == ts[4]
    IN  << <<nw, sw>>, <<nw, ne>>, <<sw, se>>, <<ne, se>> >>

\* the roof flag with the test turned round: True for bridge noRoof only
hasRoofOnlyFor(i, n) == i = n

\* hasRoof = False if i == noRoof else True
hasRoofFor(i, n) == i # n

BuildBridgesInit ==
    /\ btowers \in { ts \in [1..4 -> NearTowers] :
                         \A i \in 1..4 : ts[i].district = DistrictKeys[i] }
    /\ center = <<>> /\ interiorTypes = <<>>
    /\ noRoof = -1
    /\ bridges = <<>>
    /\ entities = <<>>
    /\ bldpc = <<"buildBridges", 0>>
    /\ GenIdle
    /\ BridgeIdle
    /\ TreeIdle
    /\ MainIdle
    /\ StructIdle

\* buildBridges up to its loop: the draw of noRoof
BuildBridgesCall ==
    /\ bldpc = <<"buildBridges", 0>>
    /\ noRoof' \in npRandint(0, 4)
    /\ bldpc' = <<"bridge", 0>>
    /\ UNCHANGED <<center, interiorTypes, btowers, bridges, entities,
                   genVars, bridgeVars, treeVars, mainVars, structVars>>

\* one iteration of the loop of buildBridges: Bridge(...) and bridge.place
BuildBridge ==
    /\ bldpc[1] = "bridge"
    /\ LET i        == bldpc[2]
           towerSet == towerSets(btowers)[i + 1]
           roof     == hasRoofFor(i, noRoof)
           dir      == Direction(towerSet)
       IN  IF dir = "ValueError"
           THEN /\ bldpc' = <<"ValueError", i>>
                /\ UNCHANGED bridges
           ELSE LET f == setTowers(towerSet)[1]
                    t == setTowers(towerSet)[2]
                IN  /\ \E pillars \in PillarDraws(dir, f, t, roof) :
                          bridges' = Append(bridges,
                              [pair |-> towerSet, roof |-> roof, f |-> f, t |-> t,
                               calls |-> placeCalls(dir, f, t, roof, pillars)])
                    /\ bldpc' = IF i + 1 < Len(towerSets(btowers))
                                THEN <<"bridge", i + 1>>
                                ELSE <<"return", 0>>
    /\ UNCHANGED <<center, interiorTypes, btowers, noRoof, entities,
                   genVars, bridgeVars, treeVars, mainVars, structVars>>

BuildBridgesNext == BuildBridgesCall \/ BuildBridge

SpecBuildBridges == BuildBridgesInit /\ [][BuildBridgesNext]_vars

(***************************************************************************)
(* Properties of buildBridges.                                             *)
(***************************************************************************)
\* the district tags of the pairs the claim names
ClaimedPairs ==
    << << <<"n", "w">>, <<"s", "w">> >>, << <<"n", "w">>, <<"n", "e">> >>,
       << <<"s", "w">>, <<"s", "e">> >>, << <<"n", "e">>, <<"s", "e">> >> >>

\* the positions of all placeBlock calls of bridge b
AllPositions(b) ==
    UNION { Elems(b.calls[k].positions) : k \in DOMAIN b.calls }

\* bridge b has no block of a roof (4 and 5 above the floor level), no roof
\* stairs (the third and fourth set of stairs) and no pillar (2 and 3 above)
Roofless(b) ==
    /\ \A q \in AllPositions(b) : q[2] <= b.f[2] + 1
    /\ b.calls[4].positions = <<>>
    /\ b.calls[5].positions = <<>>

\* C14: buildBridges builds exactly four bridges, for the tower pairs
\* (nw,sw), (nw,ne), (sw,se) and (ne,se) in turn; exactly one of the four has
\* no roof, and a bridge without a roof has no roof blocks, no roof stairs
\* and no ornamental pillars.
C14_FourBridgesOneRoofless ==
    /\ bldpc[1] \in {"bridge", "return"} =>
          /\ \A i \in DOMAIN bridges :
                /\ i <= 4
                /\ <<bridges[i].pair[1].district, bridges[i].pair[2].district>>
                       = ClaimedPairs[i]
                /\ ~bridges[i].roof => Roofless(bridges[i])
          /\ Cardinality({ i \in DOMAIN bridges : ~bridges[i].roof }) <= 1
    /\ bldpc[1] = "return" =>
          /\ Len(bridges) = 4
          /\ Cardinality({ i \in DOMAIN bridges : ~bridges[i].roof }) = 1

\* buildBridges has returned; the third bridge has no roof, and a bridge
\* with a roof has a pillar
C14_Witness ==
    /\ bldpc[1] = "return"
    /\ ~bridges[3].roof /\ Roofless(bridges[3]) /\ bridges[3].calls[1].positions # <<>>
    /\ \E q \in AllPositions(bridges[1]) : q[2] = bridges[1].f[2] + 2

(***************************************************************************)
(* builders.py: buildTowers, buildCastle and buildEntryPoints, called one  *)
(* after the other with the values each needs of the one before.           *)
(* builders.py hands Tower an interiorType and TowerStairway a number of   *)
(* levels; the classes that take them are modelled by what builders.py     *)
(* reads of their objects afterwards.                                      *)
(***************************************************************************)
\* bounds: (minx, minz, maxx, maxz) of the sectors NW, SW, SE, NE
sectorBounds ==
    << <<-35, -35, -25, -25>>, <<-35, 25, -25, 35>>,
       <<25, 25, 35, 35>>, <<25, -35, 35, -25>> >>

\* interiorTypes as line 60 sets it
InitialInteriorTypes == <<"nostalgic", "crimson", "warped", "endgame">>

\* the orders np.random.shuffle can leave the list in
Shuffles ==
    { l \in [1..4 -> Elems(InitialInteriorTypes)] :
        \A k \in Elems(InitialInteriorTypes) : \E i \in 1..4 : l[i] = k }

\* list.index(v), counted from 0
index(l, v) == (CHOOSE i \in DOMAIN l : l[i] = v /\ \A j \in 1..(i - 1) : l[j] # v) - 1

\* SectorSamples values of the integer interval S, evenly spread, its
\* smallest and its largest among them
Sampled(S) ==
    LET lo == CHOOSE a \in S : \A b \in S : a <= b
        hi == CHOOSE a \in S : \A b \in S : a >= b
    IN  { lo + ((hi - lo) * j) \div (SectorSamples - 1) : j \in 0..(SectorSamples - 1) }

\* the Tower that one iteration of the loop of buildTowers constructs: its
\* o is room.o, the origin of the base raised by the height of the base
Tower(district, interiorType, baseOrigin) ==
    [district |-> district, interiorType |-> interiorType,
     base |-> [o |-> baseOrigin, height |-> BaseHeight],
     o |-> add(baseOrigin, <<0, BaseHeight, 0>>), radius |-> RoomRadius]

\* width of the CastleOutline that buildCastle constructs
CastleWidth == 10
\* how far above the castle corner buildEntryPoints puts the entrance
EntranceRise == 20

\* CastleOutline.corners for the outline origin o
corners(o) ==
    [d \in Districts |->
        CASE d = <<"n", "w">> -> add(o, <<-CastleWidth, 0, -CastleWidth>>)
          [] d = <<"s", "w">> -> add(o, <<-CastleWidth, 0, CastleWidth>>)
          [] d = <<"s", "e">> -> add(o, <<CastleWidth, 0, CastleWidth>>)
          [] d = <<"n", "e">> -> add(o, <<CastleWidth, 0, -CastleWidth>>)]

\* the district across the x axis only (nw <-> sw, ne <-> se)
dCMirrored(dT) ==
    CASE dT = <<"n", "w">> -> <<"s", "w">>
      [] dT = <<"s", "w">> -> <<"n", "w">>
      [] dT = <<"s", "e">> -> <<"n", "e">>
      [] dT = <<"n", "e">> -> <<"s", "e">>

\* the district of the tower itself
dCSame(dT) == dT

\* dC = {'nw': 'se', 'sw': 'ne', 'se': 'nw', 'ne': 'sw'}[dT]
dC(dT) ==
    CASE dT = <<"n", "w">> -> <<"s", "e">>
      [] dT = <<"s", "w">> -> <<"n", "e">>
      [] dT = <<"s", "e">> -> <<"n", "w">>
      [] dT = <<"n", "e">> -> <<"s", "w">>

\* an integer quotient n / 4 of a component of an ivec3: glm divides
\* integers as C does (towards zero); the flooring quotient is kept as well
Quarter(n) == { n \div 4, -((-n) \div 4) }

\* relativeCenter = sum([tower.o for tower in towers.values()]) / 4
relativeCenters(ts) ==
    { <<x, y, z>> : x \in Quarter(ts[1].o[1] + ts[2].o[1] + ts[3].o[1] + ts[4].o[1]),
                    y \in Quarter(ts[1].o[2] + ts[2].o[2] + ts[3].o[2] + ts[4].o[2]),
                    z \in Quarter(ts[1].o[3] + ts[2].o[3] + ts[3].o[3] + ts[4].o[3]) }

Centers == { <<0, 0, 0>>, <<100, 64, -50>> }

BuildInit ==
    /\ center \in Centers
    /\ interiorTypes = InitialInteriorTypes
    /\ btowers = <<>>
    /\ noRoof = -1
    /\ bridges = <<>>
    /\ entities = <<>>
    /\ bldpc = <<"shuffle", 0>>
    /\ GenIdle
    /\ BridgeIdle
    /\ TreeIdle
    /\ MainIdle
    /\ StructIdle

\* the while loop left after the first shuffle, whatever the list is then
ShuffleOnce ==
    /\ bldpc[1] = "shuffle"
    /\ interiorTypes' \in Shuffles
    /\ bldpc' = <<"tower", 0>>
    /\ UNCHANGED <<center, btowers, noRoof, bridges, entities,
                   genVars, bridgeVars, treeVars, mainVars, structVars>>

\* the while loop with a test no list of four passes: a difference of 4
ShuffleFar ==
    /\ bldpc[1] = "shuffle"
    /\ interiorTypes' \in Shuffles
    /\ bldpc' = IF abs(index(interiorTypes', "nostalgic")
                         - index(interiorTypes', "endgame")) = 4
                THEN <<"tower", 0>>
                ELSE bldpc
    /\ UNCHANGED <<center, btowers, noRoof, bridges, entities,
                   genVars, bridgeVars, treeVars, mainVars, structVars>>

\* one iteration of the while loop of buildTowers
Shuffle ==
    /\ bldpc[1] = "shuffle"
    /\ interiorTypes' \in Shuffles
    /\ bldpc' = IF abs(index(interiorTypes', "nostalgic")
                         - index(interiorTypes', "endgame")) = 2
                THEN <<"tower", 0>>
                ELSE bldpc
    /\ UNCHANGED <<center, btowers, noRoof, bridges, entities,
                   genVars, bridgeVars, treeVars, mainVars, structVars>>

\* one iteration of the for loop of buildTowers: the tower of one district
BuildTower ==
    /\ bldpc[1] = "tower"
    /\ LET i == bldpc[2]
           minx == sectorBounds[i + 1][1]
           minz == sectorBounds[i + 1][2]
           maxx == sectorBounds[i + 1][3]
           maxz == sectorBounds[i + 1][4]
       IN  /\ \E rx \in Sampled(npRandint(minx, maxx)),
                 rz \in Sampled(npRandint(minz, maxz)) :
                 LET tower == Tower(DistrictKeys[i + 1], interiorTypes[i + 1],
                                    <<center[1] + rx, center[2], center[3] + rz>>)
                 IN  /\ btowers' = Append(btowers, tower)
                     /\ entities' = Append(entities,
                            [kind |-> "tower", district |-> tower.district, o |-> tower.o])
           /\ bldpc' = IF i + 1 < Len(sectorBounds)
                       THEN <<"tower", i + 1>>
                       ELSE <<"buildCastle", 0>>
    /\ UNCHANGED <<center, interiorTypes, noRoof, bridges,
                   genVars, bridgeVars, treeVars, mainVars, structVars>>

\* buildCastle(editor, relativeCenter, ...): the castle around the mean of
\* the tower origins
BuildCastle ==
    /\ bldpc[1] = "buildCastle"
    /\ \E relativeCenter \in relativeCenters(btowers) :
          entities' = Append(entities,
              [kind |-> "castle", district |-> <<"", "">>, o |-> relativeCenter])
    /\ bldpc' = <<"buildEntryPoints", 0>>
    /\ UNCHANGED <<center, interiorTypes, btowers, noRoof, bridges,
                   genVars, bridgeVars, treeVars, mainVars, structVars>>

\* the origin of the outline of the castle that has been built
CastleO == (CHOOSE e \in Elems(entities) : e.kind = "castle").o

\* buildEntryPoints(editor, castle, towers)
BuildEntryPoints ==
    /\ bldpc[1] = "buildEntryPoints"
    /\ LET tower == btowers[CHOOSE i \in DOMAIN btowers :
                        /\ btowers[i].interiorType = "nostalgic"
                        /\ \A j \in 1..(i - 1) : btowers[j].interiorType # "nostalgic"]
           dT    == tower.district
       IN  entities' = entities \o
             << [kind |-> "stairway", district |-> dT, o |-> tower.base.o],
                [kind |-> "entrance", district |-> dC(dT),
                 o |-> add(corners(CastleO)[dC(dT)], <<0, EntranceRise, 0>>)] >>
    /\ bldpc' = <<"return", 0>>
    /\ UNCHANGED <<center, interiorTypes, btowers, noRoof, bridges,
                   genVars, bridgeVars, treeVars, mainVars, structVars>>

BuildNext == Shuffle \/ BuildTower \/ BuildCastle \/ BuildEntryPoints

SpecBuild == BuildInit /\ [][BuildNext]_vars

\* the iteration of the while loop in which the shuffled list passes the test
ShuffleExit == Shuffle /\ bldpc'[1] = "tower"

\* np.random.shuffle draws every order of the list with the same
\* probability at every call, independently of the calls before: a run in
\* which the loop goes round for ever without the test passing once has
\* probability 0, and the builders themselves always take their next step.
SpecBuildFair ==
    /\ BuildInit
    /\ [][BuildNext]_vars
    /\ WF_vars(ShuffleExit)
    /\ WF_vars(BuildTower \/ BuildCastle \/ BuildEntryPoints)

(***************************************************************************)
(* Properties of buildTowers and buildEntryPoints.                         *)
(***************************************************************************)
\* the sector the claim gives for a district: the x and the z offsets
\* (w: x in [-35, -25), e: x in [25, 35), n: z in [-35, -25), s: z in [25, 35))
ClaimedSector(d) ==
    [x |-> IF d[2] = "w" THEN (-35)..(-26) ELSE 25..34,
     z |-> IF d[1] = "n" THEN (-35)..(-26) ELSE 25..34]

\* the cells of the sector that bounds[i] describes
SectorCells(i) ==
    npRandint(sectorBounds[i][1], sectorBounds[i][3])
        \X npRandint(sectorBounds[i][2], sectorBounds[i][4])

\* C15: the origin of the tower of each district lies, relative to the
\* build centre, inside the sector of that district (nw: x and z in
\* [-35,-25); sw: x in [-35,-25), z in [25,35); se: x and z in [25,35);
\* ne: x in [25,35), z in [-35,-25)); the four sectors are pairwise disjoint.
C15_TowerInOwnSector ==
    /\ \A i \in DOMAIN btowers :
          /\ btowers[i].district = DistrictKeys[i]
          /\ btowers[i].o[1] - center[1] \in ClaimedSector(btowers[i].district).x
          /\ btowers[i].o[3] - center[3] \in ClaimedSector(btowers[i].district).z
          /\ btowers[i].base.o[1] = btowers[i].o[1]
          /\ btowers[i].base.o[3] = btowers[i].o[3]
    /\ \A i, j \in DOMAIN sectorBounds :
          i # j => SectorCells(i) \cap SectorCells(j) = {}

\* the four towers stand, away from the origin of the world, and the tower
\* of ne has the largest x and the smallest z of its sector
C15_Witness ==
    /\ Len(btowers) = 4
    /\ center # <<0, 0, 0>>
    /\ btowers[4].o[1] - center[1] = 34
    /\ btowers[4].o[3] - center[3] = -35

\* the entities of one kind that have been placed
Placed(kind) == { i \in DOMAIN entities : entities[i].kind = kind }

\* the district diagonally opposite: both characters of the tag change
Diagonal(d) ==
    << IF d[1] = "n" THEN "s" ELSE "n", IF d[2] = "w" THEN "e" ELSE "w" >>

TowersWith(k) == { i \in DOMAIN btowers : btowers[i].interiorType = k }

\* C28: when buildTowers has left its shuffle loop, the four interior types
\* are assigned one-to-one to the districts nw, sw, se, ne, and nostalgic
\* and endgame are exactly two positions apart in that order: the towers
\* that get them stand in diagonally opposite districts.
C28_ShuffleResult ==
    bldpc[1] \in {"tower", "buildCastle", "buildEntryPoints", "return"} =>
        /\ Len(interiorTypes) = 4
        /\ Elems(interiorTypes) = Elems(InitialInteriorTypes)
        /\ \E i, j \in 1..4 :
              /\ interiorTypes[i] = "nostalgic" /\ interiorTypes[j] = "endgame"
              /\ abs(i - j) = 2
        /\ \A i \in DOMAIN btowers :
              /\ btowers[i].district = DistrictKeys[i]
              /\ btowers[i].interiorType = interiorTypes[i]
        /\ \A i \in TowersWith("nostalgic"), j \in TowersWith("endgame") :
              btowers[j].district = Diagonal(btowers[i].district)

\* the four towers stand; the tower of sw has the endgame interior and the
\* tower of ne the nostalgic one
C28_Witness ==
    /\ Len(btowers) = 4
    /\ btowers[2].interiorType = "endgame"
    /\ btowers[4].interiorType = "nostalgic"
    /\ interiorTypes # InitialInteriorTypes

C30_ShuffleTerminates ==
    /\ [](bldpc[1] = "shuffle" => btowers = <<>> /\ entities = <<>>)
    /\ (bldpc[1] = "shuffle") ~> (bldpc[1] = "tower")

\* the loop has just been left with endgame first and nostalgic third, and
\* no tower stands yet
C30_Witness ==
    /\ bldpc = <<"tower", 0>>
    /\ btowers = <<>>
    /\ interiorTypes[1] = "endgame" /\ interiorTypes[3] = "nostalgic"

(***************************************************************************)
(* The Bridge of buildBridges between two of the towers that buildTowers   *)
(* returns: the towers stand in their sectors around the build centre.     *)
(***************************************************************************)
\* the lists interiorTypes with which the shuffle loop can be left
ExitShuffles ==
    { l \in Shuffles : abs(index(l, "nostalgic") - index(l, "endgame")) = 2 }

\* the origins of the base of the tower of sector i (counted from 0)
SectorOrigins(c, i) ==
    { <<c[1] + rx, c[2], c[3] + rz>> :
        rx \in Sampled(npRandint(sectorBounds[i + 1][1], sectorBounds[i + 1][3])),
        rz \in Sampled(npRandint(sectorBounds[i + 1][2], sectorBounds[i + 1][4])) }

\* towers.values() as buildTowers returns it for the build centre c, the
\* list interiorTypes l and the base origins os of the four towers
BuiltTowers(c, l, os) == [i \in 1..4 |-> Tower(DistrictKeys[i], l[i], os[i])]

SectorBridgeInit ==
    /\ \E c \in Centers, l \in ExitShuffles, i \in 1..4 :
          \E o1 \in SectorOrigins(c, 0), o2 \in SectorOrigins(c, 1),
             o3 \in SectorOrigins(c, 2), o4 \in SectorOrigins(c, 3) :
             towers = towerSets(BuiltTowers(c, l, <<o1, o2, o3, o4>>))[i]
    /\ hasRoof \in BOOLEAN
    /\ bpc = "new"
    /\ brFrom = <<>> /\ brTo = <<>>
    /\ berr = ""
    /\ placed = <<>>
    /\ evaluations = <<>>
    /\ GenIdle
    /\ TreeIdle
    /\ BuildIdle
    /\ MainIdle
    /\ StructIdle

SectorBridgeNext == Construct

SpecSectorBridge == SectorBridgeInit /\ [][SectorBridgeNext]_vars

\* the unit step along the axis the bridge walks
AxisStep == IF Direction(towers) = "x" THEN <<1, 0, 0>> ELSE <<0, 0, 1>>

\* C22: for the towers of buildTowers (room radius 11, origins anywhere in
\* their sectors), a bridge of buildBridges has its 'from' entrance strictly
\* before its 'to' entrance along the axis of the bridge with at least one
\* step between them: the bridge is constructed, the walk range is not
\* empty, the divisor of the interpolation is not zero, and 'from' and 'to'
\* are the entrances of the two towers that face each other.
C22_FromBeforeTo ==
    bpc # "new" =>
        /\ bpc = "built"
        /\ brFrom[WalkAxis] + 1 < brTo[WalkAxis]
        /\ walkRange(Direction(towers), brFrom, brTo) # <<>>
        /\ brTo[WalkAxis] - brFrom[WalkAxis] # 0
        /\ \E a, b \in {towers[1], towers[2]} :
              /\ a # b
              /\ a.o[WalkAxis] < b.o[WalkAxis]
              /\ brFrom = add(a.o, <<RoomRadius * AxisStep[1], 0, RoomRadius * AxisStep[3]>>)
              /\ brTo = add(b.o, <<-RoomRadius * AxisStep[1], 0, -RoomRadius * AxisStep[3]>>)

\* the bridge along x between the towers of nw and ne where they are
\* nearest to each other, not level across the axis
C22_Witness ==
    /\ bpc = "built"
    /\ Direction(towers) = "x"
    /\ brTo[1] - brFrom[1] = 29
    /\ brTo[3] # brFrom[3]

(***************************************************************************)
(* main.py and helper.py: one run of main.  The run is the sequence of the *)
(* statements of main; what a builder does is kept as one entry of mlog,   *)
(* a placement made by that stage.  entry tells the two main.py apart:     *)
(* app/main.py and the historical src/src/main.py, whose statements are    *)
(* the same up to the tree that is built (buildBigTree, SuperTree).        *)
(***************************************************************************)
Entries == {"app", "legacy"}

\* the build areas the game may have set: offset and size of the rectangle
BuildAreas ==
    { [offset |-> <<0, 0>>, size |-> <<100, 100>>],
      [offset |-> <<-50, 30>>, size |-> <<101, 101>>] }

\* np.max of the heightmap of the build area
Tops == {-10, 64, 70}

\* center = addY(buildRect.center, base), buildRect.center = offset + size // 2
mainCenter ==
    << world.area.offset[1] + world.area.size[1] \div 2, world.top,
       world.area.offset[2] + world.area.size[2] \div 2 >>

\* one call on the editor (or one stage that places blocks), as mlog keeps it
Event(op, by) == [op |-> op, by |-> by, at |-> mainCenter]

MainInit ==
    /\ entry \in Entries
    /\ connected \in BOOLEAN
    /\ areaSet \in BOOLEAN
    /\ world \in [area : BuildAreas, top : Tops]
    /\ mpc = "getEditor"
    /\ exitCode = -1
    /\ mlog = <<>>
    /\ GenIdle
    /\ BridgeIdle
    /\ TreeIdle
    /\ BuildIdle
    /\ StructIdle

\* getEditor that returns the editor also when the connection check failed
GetEditorNoExit ==
    /\ mpc = "getEditor"
    /\ mpc' = "getBuildArea"
    /\ UNCHANGED <<exitCode, mlog>>
    /\ UNCHANGED <<entry, connected, areaSet, world,
                   genVars, bridgeVars, treeVars, buildVars, structVars>>

\* editor = getEditor(): sys.exit(1) on InterfaceConnectionError
GetEditor ==
    /\ mpc = "getEditor"
    /\ IF connected
       THEN /\ mpc' = "getBuildArea"
            /\ UNCHANGED <<exitCode, mlog>>
       ELSE /\ mpc' = "exited"
            /\ exitCode' = 1
            /\ mlog' = mlog
    /\ UNCHANGED <<entry, connected, areaSet, world,
                   genVars, bridgeVars, treeVars, buildVars, structVars>>

\* buildArea = getBuildArea(editor): sys.exit(1) on BuildAreaNotSetError
GetBuildArea ==
    /\ mpc = "getBuildArea"
    /\ IF areaSet
       THEN /\ mpc' = "loadWorldSlice"
            /\ UNCHANGED <<exitCode, mlog>>
       ELSE /\ mpc' = "exited"
            /\ exitCode' = 1
            /\ mlog' = mlog
    /\ UNCHANGED <<entry, connected, areaSet, world,
                   genVars, bridgeVars, treeVars, buildVars, structVars>>

\* the effect of a statement of main that calls the editor or a builder:
\* the call is made and the next statement follows
Call(event, next) ==
    /\ mlog' = Append(mlog, event)
    /\ mpc' = next
    /\ UNCHANGED <<entry, connected, areaSet, world, exitCode,
                   genVars, bridgeVars, treeVars, buildVars, structVars>>

\* worldSlice = editor.loadWorldSlice(buildRect) and its heightmap
LoadWorldSlice ==
    /\ mpc = "loadWorldSlice"
    /\ Call(Event("loadWorldSlice", "main"), "buildBounds")

MainBuildBounds ==
    /\ mpc = "buildBounds"
    /\ Call(Event("placeBlock", "bounds"), "buildTowers")

MainBuildTowers ==
    /\ mpc = "buildTowers"
    /\ Call(Event("placeBlock", "towers"), "buildCastle")

MainBuildCastle ==
    /\ mpc = "buildCastle"
    /\ Call(Event("placeBlock", "castle"), "buildTree")

\* buildBigTree(editor, relativeCenter), SuperTree(editor, ...) in the
\* historical main
MainBuildTree ==
    /\ mpc = "buildTree"
    /\ Call(Event("placeBlock", IF entry = "app" THEN "bigTree" ELSE "superTree"),
            "buildBridges")

MainBuildBridges ==
    /\ mpc = "buildBridges"
    /\ Call(Event("placeBlock", "bridges"), "createOverview")

\* createOverview(editor, buildRect) loads the world slice once more
CreateOverview ==
    /\ mpc = "createOverview"
    /\ Call(Event("loadWorldSlice", "overview"), "return")

\* main returns and the interpreter ends with code 0
MainReturn ==
    /\ mpc = "return"
    /\ mpc' = "exited"
    /\ exitCode' = 0
    /\ UNCHANGED <<entry, connected, areaSet, world, mlog,
                   genVars, bridgeVars, treeVars, buildVars, structVars>>

MainNext ==
    \/ GetEditor \/ GetBuildArea \/ LoadWorldSlice \/ MainBuildBounds
    \/ MainBuildTowers \/ MainBuildCastle \/ MainBuildTree \/ MainBuildBridges
    \/ CreateOverview \/ MainReturn

SpecMain == MainInit /\ [][MainNext]_vars

(***************************************************************************)
(* Properties of a run.                                                    *)
(***************************************************************************)
\* the stages of the claimed order, in that order
ClaimedOrder == <<"towers", "castle", "bridges", "entryPoints", "interiors">>

\* the stages of the claimed order that have placed blocks, in the order
\* in which they did
StagesRun ==
    LET named(e) == e.op = "placeBlock" /\ e.by \in Elems(ClaimedOrder)
        es == SelectSeq(mlog, named)
    IN  [i \in DOMAIN es |-> es[i].by]

\* C16: a run places in the order towers, castle, bridges, entrance
\* stairway and castle entrance, interiors: at every moment the stages run
\* so far are the first ones of that order, each once, and a run that
\* completes has run all five.
C16_StageOrder ==
    /\ Len(StagesRun) <= Len(ClaimedOrder)
    /\ \A i \in DOMAIN StagesRun : StagesRun[i] = ClaimedOrder[i]
    /\ exitCode = 0 => StagesRun = ClaimedOrder

\* the calls that place a block or read the world slice (and its heightmap)
PlacementsAndReads ==
    { i \in DOMAIN mlog : mlog[i].op \in {"placeBlock", "loadWorldSlice"} }

\* C17: when the connection check fails or the build area is not set, the
\* run ends with exit code 1 and has placed no block and read no world
\* slice; a run in which both checks succeed and that reaches the end of
\* main ends with exit code 0.
C17_ExitCodes ==
    /\ (~connected \/ ~areaSet) =>
          /\ PlacementsAndReads = {}
          /\ exitCode \in {-1, 1}
          /\ mpc \in {"getEditor", "getBuildArea", "exited"}
          /\ mpc = "exited" => exitCode = 1
    /\ (connected /\ areaSet /\ mpc = "exited") =>
          /\ exitCode = 0
          /\ PlacementsAndReads # {}

\* the interface answers but no build area is set: the run has ended with
\* exit code 1 after the connection check, nothing placed or read
C17_Witness ==
    /\ connected /\ ~areaSet
    /\ mpc = "exited" /\ exitCode = 1
    /\ mlog = <<>>

(***************************************************************************)
(* structs/castle.py (CastleTree) and structs/bigtree.py (BigTree): the    *)
(* growth of the trunk.  A cross-section (a 5x5 boolean array) is the set  *)
(* of its True cells <<x, z>>, 0 <= x, z <= 4.                             *)
(***************************************************************************)
\* self.r and self.d
R == 2
D == R * 2 + 1
\* maxTrunkHeight as buildCastle passes it
BuiltTrunkHeight == 20

Cells == (0..(D - 1)) \X (0..(D - 1))

\* the slice before the loop: all True but the middle and the four corners
InitialSlice ==
    Cells \ ({<<R, R>>} \cup {<<0, 0>>, <<0, D - 1>>, <<D - 1, 0>>, <<D - 1, D - 1>>})

RECURSIVE argwhere(_)
\* np.argwhere(A == True): the True cells in row-major order
argwhere(A) ==
    IF A = {} THEN <<>>
    ELSE LET m == CHOOSE c \in A : \A e \in A :
                     c[1] < e[1] \/ (c[1] = e[1] /\ c[2] <= e[2])
         IN  <<m>> \o argwhere(A \ {m})

\* the square of np.linalg.norm(c - (r, r)); the norms of two cells are
\* equal, or ordered, exactly as their squares are
norm2(c) == (c[1] - R) * (c[1] - R) + (c[2] - R) * (c[2] - R)

\* np.argmax: the index of the first largest entry
argmax(v) ==
    CHOOSE i \in DOMAIN v :
        /\ \A j \in DOMAIN v : v[j] <= v[i]
        /\ \A j \in DOMAIN v : j < i => v[j] < v[i]

\* CastleTree.furthestIndex, and the same lines inlined in BigTree._setTrunk.
\* A[np.argmax(...)] is one row, of shape (2,); randint stands for the value
\* np.random.randint(len(A)) returns where the code asks for it.
furthestIndex(A, randint) ==
    LET rows == argwhere(A)
        sel  == rows[argmax([i \in DOMAIN rows |-> norm2(rows[i])])]
    IN  IF Len(sel) # 2 THEN sel[randint + 1] ELSE sel

\* the cells of A that no cell of A is farther from the centre than
Farthest(A) == { c \in A : \A e \in A : norm2(e) <= norm2(c) }

\* the values np.random.randint may return for a choice among the farthest
RandInts(A) == 0..(Cardinality(Farthest(A)) - 1)

\* the loop's exit test on a cross-section of no cells instead of one
noneLeft(A) == Cardinality(A) = 0

\* np.sum(slice_) == 1
onlyOneLeft(A) == Cardinality(A) = 1

(***************************************************************************)
(* np.random.rand() returns a double u with 0 <= u <= 1 - 2^-53.  The      *)
(* stream values of the model are the two ends of that range, "zero" and   *)
(* "top": at every layer both outcomes of the comparison that some u can   *)
(* produce are produced by one of them.  In double arithmetic              *)
(*   0.99^(2^n) is positive for n <= 16 and 0.0 from n = 17 on;            *)
(*   1 - 0.75^(2^n) is at most 1 - 2^-53 for n <= 7 and 1.0 from n = 8 on. *)
(***************************************************************************)
Draws == {"zero", "top"}
CastleUnderflow == 17
BigSaturation == 8

\* CastleTree: np.random.rand() < dropRate
castleClears(u, n) == u = "zero" /\ n < CastleUnderflow

\* BigTree: np.random.rand() < 1 - dropRate
bigClears(u, n) == u = "zero" \/ n >= BigSaturation

\* self.trunk[y] = slice_ (the values are copied into the array)
Assign(tr, y, s) == [yy \in (DOMAIN tr) \cup {y} |-> IF yy = y THEN s ELSE tr[yy]]

\* contents an np.empty layer may show when it is read before it is assigned
Uninitialised == { {}, Cells, {<<R, R>>} }

\* the origin handed to the constructor, and self.o
TreeOriginArg == <<0, 1, 0>>
TreeO(v) == IF v = "CastleTree" THEN add(TreeOriginArg, <<0, 3, 0>>) ELSE TreeOriginArg

\* the coordinates of the True cells of one layer, in the order of the loops
layerCoords(o, y, cells) ==
    [i \in DOMAIN argwhere(cells) |->
        add(o, <<argwhere(cells)[i][1] - R, y, argwhere(cells)[i][2] - R>>)]

\* CastleTree.trunkG: the layers below trunkHeight of trunkA (np.zeros)
trunkG(tr, th) ==
    LET ys == range(0, th)
    IN  Flatten([i \in DOMAIN ys |->
            layerCoords(TreeO("CastleTree"), ys[i],
                        IF ys[i] \in DOMAIN tr THEN tr[ys[i]] ELSE {})])

\* the list BigTree._setTrunk builds from layers 0..trunkHeight of trunk
\* (np.empty); garbage gives the contents of the layers never assigned
bigTrunkGenerator(tr, th, garbage) ==
    LET ys == range(0, th + 1)
    IN  Flatten([i \in DOMAIN ys |->
            layerCoords(TreeO("BigTree"), ys[i],
                        IF ys[i] \in DOMAIN tr THEN tr[ys[i]] ELSE garbage[ys[i]])])

\* the trunk coordinates of the constructed tree
TrunkCoordinates ==
    IF variant = "CastleTree" THEN trunkG(trunk, trunkHeight) ELSE trunkGenerator

(***************************************************************************)
(* The trunk growth as a state machine: one action per iteration of the    *)
(* loop, the rest of BigTree._setTrunk, and the repetition of the          *)
(* construction on the same random stream.                                 *)
(***************************************************************************)
TrunkHeights == 1..(BuiltTrunkHeight + ExtraTrunk)

TopDraws(st) == Cardinality({ i \in DOMAIN st : st[i] = "top" })

\* np.random.rand(): the next value of the stream is u
Rand(u) ==
    /\ u \in Draws
    /\ IF pos < Len(stream)
       THEN u = stream[pos + 1] /\ stream' = stream
       ELSE /\ TopDraws(Append(stream, u)) <= MaxTopDraws
            /\ stream' = Append(stream, u)
    /\ pos' = pos + 1

\* the end of one iteration of for y in range(self.maxTrunkHeight)
NextY(after) ==
    IF ty + 1 < maxTrunkHeight
    THEN ty' = ty + 1 /\ tpc' = "loop"
    ELSE ty' = ty /\ tpc' = after

TreeInit ==
    /\ variant \in {"CastleTree", "BigTree"}
    /\ maxTrunkHeight \in TrunkHeights
    /\ tpc = "loop"
    /\ ty = 0
    /\ slice_ = InitialSlice
    /\ dropRate = 0
    /\ trunk = <<>>
    /\ trunkHeight = 0
    /\ trunkGenerator = <<>>
    /\ stream = <<>>
    /\ pos = 0
    /\ run = 1
    /\ first = <<>>
    /\ GenIdle
    /\ BridgeIdle
    /\ BuildIdle
    /\ MainIdle
    /\ StructIdle

\* one iteration of the loop of CastleTree._constructTrunk
CastleGrow ==
    /\ tpc = "loop" /\ variant = "CastleTree"
    /\ trunk' = Assign(trunk, ty, slice_)
    /\ trunkHeight' = ty
    /\ IF onlyOneLeft(slice_)
       THEN /\ tpc' = "done"
            /\ UNCHANGED <<ty, slice_, dropRate, stream, pos>>
       ELSE /\ \E u \in Draws :
                 /\ Rand(u)
                 /\ IF castleClears(u, dropRate)
                    THEN /\ \E randint \in RandInts(slice_) :
                              slice_' = slice_ \ {furthestIndex(slice_, randint)}
                         /\ dropRate' = dropRate + 1
                    ELSE UNCHANGED <<slice_, dropRate>>
            /\ NextY("done")
    /\ UNCHANGED <<variant, maxTrunkHeight, trunkGenerator, run, first, genVars, bridgeVars,
                   buildVars, mainVars, structVars>>

\* one iteration of the loop of BigTree._setTrunk
BigGrow ==
    /\ tpc = "loop" /\ variant = "BigTree"
    /\ IF onlyOneLeft(slice_)
       THEN /\ tpc' = "read"
            /\ UNCHANGED <<ty, slice_, dropRate, trunk, stream, pos>>
       ELSE /\ \E u \in Draws :
                 /\ Rand(u)
                 /\ IF bigClears(u, dropRate)
                    THEN \E randint \in RandInts(slice_) :
                              slice_' = slice_ \ {furthestIndex(slice_, randint)}
                    ELSE slice_' = slice_
            /\ dropRate' = dropRate + 1
            /\ trunk' = Assign(trunk, ty, slice_')
            /\ NextY("read")
    /\ UNCHANGED <<variant, maxTrunkHeight, trunkHeight, trunkGenerator, run, first,
                   genVars, bridgeVars,
                   buildVars, mainVars, structVars>>

\* BigTree._setTrunk after the loop: trunkHeight and the coordinate list
BigRead ==
    /\ tpc = "read" /\ variant = "BigTree"
    /\ trunkHeight' = ty
    /\ \E garbage \in [(0..ty) \ DOMAIN trunk -> Uninitialised] :
          trunkGenerator' = bigTrunkGenerator(trunk, ty, garbage)
    /\ tpc' = "done"
    /\ UNCHANGED <<variant, maxTrunkHeight, ty, slice_, dropRate, trunk, stream, pos,
                   run, first, genVars, bridgeVars,
                   buildVars, mainVars, structVars>>

\* the tree is constructed a second time, with the stream rewound
Rerun ==
    /\ tpc = "done" /\ run = 1
    /\ first' = [trunkHeight |-> trunkHeight, coords |-> TrunkCoordinates]
    /\ run' = 2
    /\ tpc' = "loop"
    /\ ty' = 0
    /\ slice_' = InitialSlice
    /\ dropRate' = 0
    /\ trunk' = <<>>
    /\ trunkHeight' = 0
    /\ trunkGenerator' = <<>>
    /\ pos' = 0
    /\ UNCHANGED <<variant, maxTrunkHeight, stream, genVars, bridgeVars,
                   buildVars, mainVars, structVars>>

TreeNext == CastleGrow \/ BigGrow \/ BigRead \/ Rerun

SpecTree == TreeInit /\ [][TreeNext]_vars

(***************************************************************************)
(* Properties of the trunk growth.                                         *)
(***************************************************************************)
\* a layer with exactly one occupied cell has been stored
StoredOne == \E y \in DOMAIN trunk : Cardinality(trunk[y]) = 1

C5_RandomTieBreak ==
    (tpc = "loop" /\ Cardinality(slice_) > 1) =>
        /\ \A randint \in RandInts(slice_) :
              furthestIndex(slice_, randint) \in Farthest(slice_)
        /\ { furthestIndex(slice_, randint) : randint \in RandInts(slice_) }
              = Farthest(slice_)

\* C6: constructing the trunk twice on the same random stream yields the
\* same trunkHeight and the same sequence of trunk coordinates.
C6_SameStreamSameTrunk ==
    (run = 2 /\ tpc = "done") =>
        /\ trunkHeight = first.trunkHeight
        /\ TrunkCoordinates = first.coords

\* the loop has gone through one more iteration that drew from the stream:
\* a layer was grown without the loop breaking
LayerGrown == tpc = "loop" /\ run' = run /\ pos' = pos + 1

\* C19: in CastleTree and in BigTree, within one iteration of the growth
\* the clearing precedes the copy of the cross-section into the layer: the
\* cross-section stored for layer y does not hold the cell that the
\* iteration for y cleared.
C19_ClearBeforeCopy ==
    [][(LayerGrown /\ slice_' # slice_) =>
          /\ ty \in DOMAIN trunk'
          /\ trunk'[ty] \cap (slice_ \ slice_') = {}]_vars

\* the values of np.random.rand() on which a layer grown at dropRate
\* exponent n clears a cell
ClearingDraws(v, n) ==
    { u \in Draws : IF v = "CastleTree" THEN castleClears(u, n) ELSE bigClears(u, n) }

\* C20: in CastleTree and in BigTree, dropRate is squared after each grown
\* layer, and the probability with which a layer clears a cell, 1 - dropRate,
\* never decreases from one layer to the next: a draw that clears a cell in
\* one layer clears one in the next layer too.
C20_ClearingNeverDecreases ==
    [][LayerGrown =>
          /\ dropRate' = dropRate + 1
          /\ ClearingDraws(variant, dropRate) \subseteq ClearingDraws(variant, dropRate')]_vars

\* C21: BigTree: every layer from which the list of trunk coordinates is
\* built, layers 0..trunkHeight, was assigned by the growth loop before it
\* is read, whatever maxTrunkHeight and the draws are.
C21_LayersAssignedBeforeRead ==
    (variant = "BigTree" /\ tpc = "done") =>
        \A y \in 0..trunkHeight : y \in DOMAIN trunk

(***************************************************************************)
(* The structures and the blocks they place.  A call of editor.placeBlock  *)
(* is kept as a write: the block and the set of the positions handed over. *)
(* The world after a sequence of writes holds, at every position, the      *)
(* block of the last write that names the position.                        *)
(***************************************************************************)
Write(block, positions) == [block |-> block, positions |-> positions]

\* the block at position p after the writes ws, "none" where nothing was put
BlockAt(ws, p) ==
    LET named == { i \in DOMAIN ws : p \in ws[i].positions }
    IN  IF named = {} THEN "none"
        ELSE ws[CHOOSE i \in named : \A j \in named : j <= i].block

(***************************************************************************)
(* fittingCylinder of the gdpc library without tube or hollow gives a      *)
(* filled cylinder that fits the box of its corners, with tube = True the  *)
(* wall of that cylinder.  How the library rounds the circle is left open: *)
(* kind names one of three roundings, the same for every layer of a call.  *)
(***************************************************************************)
CylinderKinds == {"box", "disc", "wide"}

\* the filled cross-section of half-width hw
Section(kind, hw) ==
    CASE kind = "box"  -> Box2(hw)
      [] kind = "disc" -> { c \in Box2(hw) : c[1] * c[1] + c[2] * c[2] <= hw * hw }
      [] kind = "wide" -> { c \in Box2(hw) : c[1] * c[1] + c[2] * c[2] <= hw * hw + hw }

\* the wall of the cross-section: its cells with a neighbour outside it
TubeSection(kind, hw) ==
    { c \in Section(kind, hw) :
        \E d \in { <<1, 0>>, <<-1, 0>>, <<0, 1>>, <<0, -1>> } :
            <<c[1] + d[1], c[2] + d[2]>> \notin Section(kind, hw) }

\* fittingCylinder(from_, to_) for corners several layers apart: the same
\* cross-section in every layer from from_.y to to_.y
cylinderLayers(from_, to_, section) ==
    UNION { Elems(fittingCylinder(<<from_[1], y, from_[3]>>, <<to_[1], y, to_[3]>>, section)) :
              y \in from_[2]..to_[2] }

(***************************************************************************)
(* structs/tower.py: TowerRoof                                             *)
(***************************************************************************)
\* height and radius of the TowerRoof that buildTowers constructs
BuiltRoofHeight == 10
BuiltRoofRadius == 13

\* the cross-sections fittingCylinder gives cone for its layers
coneSections(kind, height) == [n \in 1..height |-> Section(kind, height - n)]

\* TowerRoof.place with the cone placed after the air and the glass
towerRoofPlaceConeLast(r) ==
    LET o == r.o
        rad == r.radius
    IN  << Write("base", Elems(fittingCylinder(add(o, <<-rad, 0, -rad>>),
                                                add(o, <<rad, 0, rad>>),
                                                Section(r.kind, rad)))),
           Write("base", cylinderLayers(add(o, <<-rad, -1, -rad>>),
                                        add(o, <<rad, 1, rad>>),
                                        TubeSection(r.kind, rad))),
           Write("netherite", Elems(pyramid(add(o, Y), 4, FALSE))),
           Write("beacon", {add(o, <<0, 4, 0>>)}),
           Write("air", {add(o, <<0, r.height, 0>>)}),
           Write(r.beaconColor \o "_stained_glass", {add(o, <<0, r.height - 1, 0>>)}),
           Write("cone", Elems(cone(add(o, Y), r.height, TRUE,
                                    coneSections(r.kind, r.height)))) >>

\* TowerRoof.place: the seven calls of editor.placeBlock, in order, with
\* floorG, guardsG, beaconPyramidG and coneG
towerRoofPlace(r) ==
    LET o == r.o
        rad == r.radius
    IN  << Write("base", Elems(fittingCylinder(add(o, <<-rad, 0, -rad>>),
                                                add(o, <<rad, 0, rad>>),
                                                Section(r.kind, rad)))),
           Write("base", cylinderLayers(add(o, <<-rad, -1, -rad>>),
                                        add(o, <<rad, 1, rad>>),
                                        TubeSection(r.kind, rad))),
           Write("netherite", Elems(pyramid(add(o, Y), 4, FALSE))),
           Write("beacon", {add(o, <<0, 4, 0>>)}),
           Write("cone", Elems(cone(add(o, Y), r.height, TRUE,
                                    coneSections(r.kind, r.height)))),
           Write("air", {add(o, <<0, r.height, 0>>)}),
           Write(r.beaconColor \o "_stained_glass", {add(o, <<0, r.height - 1, 0>>)}) >>

\* the heights of the roofs looked at: from 6 on, and the one that is built
MaxRoofHeight == 7
RoofHeights == (6..MaxRoofHeight) \cup {BuiltRoofHeight}
BeaconColors == {"purple", "black"}

RoofInit ==
    /\ struct \in [class : {"TowerRoof"}, o : Origins, height : RoofHeights,
                   radius : {BuiltRoofRadius}, beaconColor : BeaconColors,
                   kind : CylinderKinds]
    /\ spc = <<"TowerRoof.place", 1>>
    /\ writes = <<>>
    /\ GenIdle
    /\ BridgeIdle
    /\ TreeIdle
    /\ BuildIdle
    /\ MainIdle

\* one call of editor.placeBlock of TowerRoof.place, and the return after
\* the last one
RoofPlaceBlock ==
    /\ spc[1] = "TowerRoof.place"
    /\ writes' = Append(writes, towerRoofPlace(struct)[spc[2]])
    /\ spc' = IF spc[2] < Len(towerRoofPlace(struct))
              THEN <<"TowerRoof.place", spc[2] + 1>>
              ELSE <<"placed", 0>>
    /\ UNCHANGED <<struct, genVars, bridgeVars, treeVars, buildVars, mainVars>>

RoofNext == RoofPlaceBlock

SpecRoof == RoofInit /\ [][RoofNext]_vars

\* C23: after TowerRoof.place with height >= 6, the last write at each
\* position deciding, origin + 4*Y holds the beacon, origin + (height-1)*Y
\* the stained glass of the beacon colour, origin + height*Y (the apex of
\* the cone) air, and no position of the vertical axis strictly between
\* the beacon and the glass holds a block.
C23_BeaconShaft ==
    (struct.class = "TowerRoof" /\ spc[1] = "placed") =>
        /\ BlockAt(writes, add(struct.o, <<0, 4, 0>>)) = "beacon"
        /\ BlockAt(writes, add(struct.o, <<0, struct.height - 1, 0>>))
               = struct.beaconColor \o "_stained_glass"
        /\ BlockAt(writes, add(struct.o, <<0, struct.height, 0>>)) = "air"
        /\ \A y \in 5..(struct.height - 2) :
              BlockAt(writes, add(struct.o, <<0, y, 0>>)) \in {"none", "air"}

\* the roof that buildTowers constructs has been placed: the cone has put
\* its material on the apex and next to the axis, the pyramid under the
\* beacon
C23_Witness ==
    /\ struct.class = "TowerRoof" /\ spc[1] = "placed"
    /\ struct.height = BuiltRoofHeight /\ struct.beaconColor = "purple"
    /\ add(struct.o, <<0, struct.height, 0>>) \in writes[5].positions
    /\ BlockAt(writes, add(struct.o, <<1, struct.height - 1, 0>>)) = "cone"
    /\ BlockAt(writes, add(struct.o, <<0, 3, 0>>)) = "netherite"

(***************************************************************************)
(* structs/tower.py: TowerStairway.  The stairway is built on a TowerBase   *)
(* as buildTowers constructs it (height 20, radius 10); struct holds the    *)
(* district and the origin of that base.  place is a fixed list of         *)
(* placeBlock calls: five for the top of the stairway, then three for each *)
(* n of range(1, 5).                                                       *)
(***************************************************************************)
\* radius of the TowerBase that buildTowers constructs
BaseRadius == 10

min2(a, b) == IF a <= b THEN a ELSE b
max2(a, b) == IF a >= b THEN a ELSE b

\* cuboid3D of gdpc: every point of the box spanned by two corners
cuboid3D(a, b) ==
    { <<x, y, z>> : x \in min2(a[1], b[1])..max2(a[1], b[1]),
                    y \in min2(a[2], b[2])..max2(a[2], b[2]),
                    z \in min2(a[3], b[3])..max2(a[3], b[3]) }

\* TowerStairway.sign
stairSign(st) == IF st.district[2] = "w" THEN 1 ELSE -1

\* TowerStairway.o: the reference point of the stairway
stairO(st) ==
    add(st.towerO, <<stairSign(st) * (BaseRadius + 2), BaseHeight, stairSign(st) * 1>>)

\* TowerStairway._next
nextFacing(facing) ==
    CASE facing = "north" -> "east"
      [] facing = "east"  -> "south"
      [] facing = "south" -> "west"
      [] facing = "west"  -> "north"

\* the facing of the stair blocks of set n: the initial facing of the
\* district turned n times (n = 0 for the initial stairs)
RECURSIVE stairFacing(_, _)
stairFacing(st, n) ==
    IF n = 0 THEN (IF st.district[2] = "w" THEN "north" ELSE "south")
    ELSE nextFacing(stairFacing(st, n - 1))

baselineG(st) ==
    LET s == stairSign(st)
        o == stairO(st)
    IN  UNION { cuboid3D(add(o, <<s * 2, -(i + 1), s * i>>),
                         add(o, <<s * (-2), -(i + 1), s * (i + 1)>>)) : i \in 0..2 }

cutoutG(st) ==
    LET s == stairSign(st)
        o == stairO(st)
    IN  cuboid3D(add(o, <<s * (-1), -1, s * 1>>), add(o, <<s * 1, 3, s * 2>>))

initialStairsG(st) ==
    LET s == stairSign(st)
        o == stairO(st)
    IN  UNION { Elems(line3D(add(o, <<s * (-1), -i, s * i>>),
                             add(o, <<s * 1, -i, s * i>>))) : i \in 0..2 }

firstPlateauG(st) ==
    LET s == stairSign(st)
        o == stairO(st)
    IN  UNION { Elems(line3D(add(o, <<s * (-2 - i), -3, s * (3 + i)>>),
                             add(o, <<s * (2 - i), -3, s * (3 + i)>>))) : i \in 0..5 }
        \cup
        UNION { Elems(line3D(add(o, <<s * (-9), -3, s * (9 + i)>>),
                             add(o, <<s * (-4 - i), -3, s * (9 + i)>>))) : i \in 0..3 }

\* setOfStairsG with the list of the reference offsets read backwards
setOfStairsOBackwards(st, n) ==
    LET s == stairSign(st)
        c == << <<0, -s, -s, 0>>, <<-s, 0, 0, s>>, <<0, s, s, 0>>, <<s, 0, 0, -s>> >>[(n % 4) + 1]
    IN  << st.towerO[1] + c[1] * (BaseRadius + 2) + c[2] * 3,
           stairO(st)[2] + 2 - (5 * n) + 1,
           st.towerO[3] + c[3] * (BaseRadius + 2) + c[4] * 3 >>

\* setOfStairsG: the reference point o of the n-th set of stairs
setOfStairsO(st, n) ==
    LET s == stairSign(st)
        c == << <<s, 0, 0, -s>>, <<0, s, s, 0>>, <<-s, 0, 0, s>>, <<0, -s, -s, 0>> >>[(n % 4) + 1]
    IN  << st.towerO[1] + c[1] * (BaseRadius + 2) + c[2] * 3,
           stairO(st)[2] + 2 - (5 * n) + 1,
           st.towerO[3] + c[3] * (BaseRadius + 2) + c[4] * 3 >>

\* setOfStairsG: the five lines of the n-th set of stairs
setOfStairsG(st, n) ==
    LET s == stairSign(st)
        o == setOfStairsO(st, n)
        lines(i) ==
            << line3D(add(o, <<s * (-1), -i, s * i>>),    add(o, <<s * 1, -i, s * i>>)),
               line3D(add(o, <<s * (-i), -i, s * 1>>),    add(o, <<s * (-i), -i, s * (-1)>>)),
               line3D(add(o, <<s * (-1), -i, s * (-i)>>), add(o, <<s * 1, -i, s * (-i)>>)),
               line3D(add(o, <<s * i, -i, s * 1>>),       add(o, <<s * i, -i, s * (-1)>>)) >>
    IN  UNION { Elems(lines(i)[(n % 4) + 1]) : i \in 1..5 }

setOfStairsSupportG(st, n) == { add(p, <<0, -1, 0>>) : p \in setOfStairsG(st, n) }

\* the box of plateauG: the quadrant that n % 4 selects
plateauBox(st, n) ==
    LET s  == stairSign(st)
        q  == << <<s, s>>, <<-s, s>>, <<-s, -s>>, <<s, -s>> >>[(n % 4) + 1]
        y  == stairO(st)[2] + (-3) - (5 * n)
        tx == st.towerO[1]
        tz == st.towerO[3]
        r  == BaseRadius
    IN  cuboid3D(<<tx + q[1] * 3, y, tz + q[2] * 3>>,
                 <<tx + q[1] * (r + 3), y, tz + q[2] * (r + 3)>>)

\* the square of np.linalg.norm(p - ivec3(tx, y, tz))
axisDist2(st, n, p) ==
    LET y == stairO(st)[2] + (-3) - (5 * n)
    IN  (p[1] - st.towerO[1]) * (p[1] - st.towerO[1])
        + (p[2] - y) * (p[2] - y)
        + (p[3] - st.towerO[3]) * (p[3] - st.towerO[3])

\* plateauG without the filter on the distance
plateauGWholeBox(st, n) == plateauBox(st, n)

\* plateauG: the points of the box with r - 1 < norm < r + 4; the norm of
\* an integer vector is the root of an integer, so the squares are compared
plateauG(st, n) ==
    LET r == BaseRadius
    IN  { p \in plateauBox(st, n) :
            /\ axisDist2(st, n, p) > (r - 1) * (r - 1)
            /\ axisDist2(st, n, p) < (r + 4) * (r + 4) }

\* the stair block after stairM.setFacing(facing)
stairBlock(facing) ==
    CASE facing = "north" -> "stairs[facing=north]"
      [] facing = "east"  -> "stairs[facing=east]"
      [] facing = "south" -> "stairs[facing=south]"
      [] facing = "west"  -> "stairs[facing=west]"

\* TowerStairway.place: the placeBlock calls in their order
stairwayPlace(st) ==
    << Write("glowstone", {stairO(st)}),
       Write("base", baselineG(st)),
       Write("air", cutoutG(st)),
       Write(stairBlock(stairFacing(st, 0)), initialStairsG(st)),
       Write("base", firstPlateauG(st)) >>
    \o Flatten([n \in 1..4 |->
         << Write(stairBlock(stairFacing(st, n)), setOfStairsG(st, n)),
            Write("base", setOfStairsSupportG(st, n)),
            Write("base", plateauG(st, n)) >>])

StairwayInit ==
    /\ struct \in [class : {"TowerStairway"}, district : Districts, towerO : Origins]
    /\ spc = <<"TowerStairway.place", 1>>
    /\ writes = <<>>
    /\ GenIdle /\ BridgeIdle /\ TreeIdle /\ BuildIdle /\ MainIdle

\* one placeBlock call of TowerStairway.place
StairwayPlaceBlock ==
    /\ spc[1] = "TowerStairway.place"
    /\ writes' = Append(writes, stairwayPlace(struct)[spc[2]])
    /\ spc' = IF spc[2] < Len(stairwayPlace(struct))
              THEN <<"TowerStairway.place", spc[2] + 1>>
              ELSE <<"placed", 0>>
    /\ UNCHANGED <<struct, genVars, bridgeVars, treeVars, buildVars, mainVars>>

StairwayNext == StairwayPlaceBlock

SpecStairway == StairwayInit /\ [][StairwayNext]_vars

StairwayPlaced == struct.class = "TowerStairway" /\ spc[1] = "placed"

\* the write of the n-th set of stairs and of the n-th plateau
StairsWrite(n) == writes[3 + 3 * n]
PlateauWrite(n) == writes[5 + 3 * n]

\* seen from above with x to the east and z to the south, the turn from p to
\* q around the tower axis is clockwise when the cross product is positive
TurnsClockwise(st, p, q) ==
    (p[1] - st.towerO[1]) * (q[3] - st.towerO[3])
    - (p[3] - st.towerO[3]) * (q[1] - st.towerO[1]) > 0
TurnsCounterClockwise(st, p, q) ==
    (p[1] - st.towerO[1]) * (q[3] - st.towerO[3])
    - (p[3] - st.towerO[3]) * (q[1] - st.towerO[1]) < 0

\* the reference point of set n has its first step written in set n
RefWritten(n) ==
    \E p \in StairsWrite(n).positions :
        /\ p[2] = setOfStairsO(struct, n)[2] - 1
        /\ abs(p[1] - setOfStairsO(struct, n)[1]) + abs(p[3] - setOfStairsO(struct, n)[3]) = 1

C26_PlateauInAnnulus ==
    StairwayPlaced =>
        \A n \in 1..4 : \A p \in PlateauWrite(n).positions :
            LET s  == stairSign(struct)
                q  == << <<s, s>>, <<-s, s>>, <<-s, -s>>, <<s, -s>> >>[(n % 4) + 1]
                dx == q[1] * (p[1] - struct.towerO[1])
                dz == q[2] * (p[3] - struct.towerO[3])
            IN  /\ dx * dx + dz * dz > (BaseRadius - 1) * (BaseRadius - 1)
                /\ dx * dx + dz * dz < (BaseRadius + 4) * (BaseRadius + 4)
                /\ dx \in 3..(BaseRadius + 3) /\ dz \in 3..(BaseRadius + 3)
                /\ p[2] = stairO(struct)[2] - 3 - 5 * n

\* a stairway has been placed and each of its four plateaus has points
C26_Witness ==
    /\ StairwayPlaced
    /\ \A n \in 1..4 : PlateauWrite(n).positions # {}
    /\ \E p \in PlateauWrite(1).positions : \E q \in PlateauWrite(2).positions :
           p[1] # q[1] /\ p[2] = q[2] + 5

(***************************************************************************)
(* structs/castle.py: Castle.place on the castle that buildCastle          *)
(* constructs.  The castle stands on relativeCenter, the point under the   *)
(* origin handed to CastleTree.  The writes keep the positions of the      *)
(* observed columns only (the vertical axis of the castle and the column   *)
(* east of it): what is written elsewhere cannot change the block of an    *)
(* observed position.  The two lava generators draw np.random.rand() once  *)
(* for every point of their cuboid; the model chooses the set of observed  *)
(* points that the draws keep.                                             *)
(***************************************************************************)
\* wallHeight, basementHeight and the height of the roof in buildCastle
WallHeight == 30
BasementHeight == 10
CastleRoofHeight == 8

\* relativeCenter: CastleTree gets relativeCenter + Y
relativeCenter == add(TreeOriginArg, <<0, -1, 0>>)

\* the observed columns, as offsets <<dx, dz>> from the castle origin
ViewColumns == { <<0, 0>>, <<1, 0>> }

\* the positions of a generator that lie in the observed columns
Seen(ps) == { p \in ps : <<p[1] - relativeCenter[1], p[3] - relativeCenter[3]>> \in ViewColumns }

\* Seen(cuboid3D(a, b)) for corners a <= b, without building the cuboid
seenCuboid(a, b) ==
    { <<relativeCenter[1] + c[1], y, relativeCenter[3] + c[2]>> :
        c \in { v \in ViewColumns : /\ relativeCenter[1] + v[1] \in a[1]..b[1]
                                    /\ relativeCenter[3] + v[2] \in a[3]..b[3] },
        y \in a[2]..b[2] }

\* Seen of the layers ys of fittingCylinder(from_, to_) with a cross-section
seenCylinder(from_, to_, ys, section) ==
    { p \in seenCuboid(<<from_[1], from_[2], from_[3]>>, <<to_[1], to_[2], to_[3]>>) :
        /\ p[2] \in ys
        /\ <<p[1] - (from_[1] + to_[1]) \div 2, p[3] - (from_[3] + to_[3]) \div 2>> \in section }

\* fittingCylinder(from_, to_, hollow = True): the wall and the two end caps
seenHollowCylinder(from_, to_, kind, hw) ==
    seenCylinder(from_, to_, from_[2]..to_[2], TubeSection(kind, hw))
    \cup seenCylinder(from_, to_, {from_[2], to_[2]}, Section(kind, hw))

\* the corners of the outline in the order of the dictionary
cornerSeq(o) == [i \in 1..4 |-> corners(o)[DistrictKeys[i]]]

\* CastleOutline.place: the k-th of the seven placeBlock calls
outlinePlace(o, kind, k) ==
    LET w  == CastleWidth
        wH == WallHeight
        bH == BasementHeight
        cs == cornerSeq(o)
    IN  CASE k = 1 -> Write("base", seenCuboid(add(o, <<-w, 0, -w>>), add(o, <<w, 0, w>>)))
          [] k = 2 -> Write("base", seenCuboid(add(o, <<-w, -bH, -w>>), add(o, <<w, -bH, w>>)))
          [] k = 3 -> Write("base", seenCuboid(add(o, <<-w, wH, -w>>), add(o, <<w, wH, w>>)))
          [] k = 4 -> Write("base", UNION { seenHollowCylinder(add(cs[i], <<-3, -bH, -3>>),
                                                    add(cs[i], <<3, wH, 3>>), kind, 3) :
                                   i \in 1..4 })
          [] k = 5 -> Write("base", UNION { seenCylinder(add(cs[i], <<-4, wH + 1, -4>>),
                                              add(cs[i], <<4, wH + 1, 4>>),
                                              {cs[i][2] + wH + 1}, Section(kind, 4)) :
                                   i \in 1..4 })
          [] k = 6 -> Write("base", UNION { Seen(cuboid3D(add(cs[i], <<0, -bH, 0>>),
                                               add(cs[(i % 4) + 1], <<0, wH, 0>>))) :
                                   i \in 1..4 })
          [] k = 7 -> Write("air", seenCuboid(add(o, <<-w + 1, 1, -w + 1>>), add(o, <<w - 1, wH - 1, w - 1>>))
                        \cup seenCuboid(add(o, <<-w + 1, -bH + 1, -w + 1>>),
                                        add(o, <<w - 1, -1, w - 1>>))
                        \cup seenCuboid(add(o, <<-w + 3, wH, -w + 3>>),
                                        add(o, <<w - 3, wH, w - 3>>)))

\* the cuboid of CastleBasement.lavaG, bo the origin of the basement
basementLavaCells(bo) ==
    seenCuboid(add(bo, <<-CastleWidth + 1, 1, -CastleWidth + 1>>),
               add(bo, <<CastleWidth - 1, 1, CastleWidth - 1>>))

parkourBaseBlocksG(bo) ==
    { add(bo, <<x, 1, 0>>) : x \in {3, 5, 7} }
    \cup { add(bo, <<7, 1, -7>>) }
    \cup cuboid3D(add(bo, <<7, 4, -7>>), add(bo, <<9, 4, -9>>))

parkourWallBlocksG(bo) ==
    ({ add(bo, <<x, y, 0>>) : x \in {3, 5, 7}, y \in 2..5 } \ { add(bo, <<7, 5, 0>>) })
    \cup { add(bo, <<9, 4, z>>) : z \in {0, -2, -4} }
    \cup { add(bo, <<9, 5, -5>>), add(bo, <<7, 2, -7>>), add(bo, <<7, 3, -7>>),
           add(bo, <<8, 5, -7>>) }
    \cup Elems(line3D(add(bo, <<7, 5, -7>>), add(bo, <<7, 5, -9>>)))

\* CastleBasement.place: the k-th of the ten placeBlock calls; lava is the set of the
\* observed points of the cuboid that lavaG keeps
basementPlace(bo, lava, k) ==
    CASE k = 1 -> Write("lava", lava)
      [] k = 2 -> Write("netherite", seenCuboid(add(bo, <<-1, 1, -1>>), add(bo, <<1, 5, 1>>)))
      [] k = 3 -> Write("beacon", Seen({add(bo, <<0, 2, 0>>)}))
      [] k = 4 -> Write("black_stained_glass_pane", Seen({add(bo, <<0, 3, 0>>)}))
      [] k = 5 -> Write("air", Seen({add(bo, <<0, 4, 0>>)}))
      [] k = 6 -> Write("water", Seen({add(bo, <<0, 5, 0>>)}))
      [] k = 7 -> Write("end_stone_bricks", Seen(parkourBaseBlocksG(bo)))
      [] k = 8 -> Write("end_stone_brick_wall", Seen(parkourWallBlocksG(bo)))
      [] k = 9 -> Write("chest", Seen({add(bo, <<8, 5, -9>>)}))
      [] k = 10 -> Write("sign", Seen({add(bo, <<8, 5, -8>>)}))

\* CastleRoof.place: the k-th of the four placeBlock calls, ro the origin of the roof
roofPlace(ro, o, kind, k) ==
    LET cs == cornerSeq(o)
        h  == CastleRoofHeight
    IN  CASE k = 1 -> Write("tinted_glass", Seen(Elems(pyramid(ro, h, TRUE))))
          [] k = 2 -> Write("magma", UNION { Seen(Elems(cone(<<cs[i][1], ro[2] + 1, cs[i][3]>>, 4, FALSE,
                                                  coneSections(kind, 4)))) : i \in 1..4 })
          [] k = 3 -> Write("air", Seen({add(ro, <<0, h - 1, 0>>)}))
          [] k = 4 -> Write("glass", Seen({add(ro, <<0, h - 2, 0>>)}))

\* the cuboid of Castle.lavaG
castleLavaCells(o) ==
    seenCuboid(add(o, <<-CastleWidth + 1, 1, -CastleWidth + 1>>),
               add(o, <<CastleWidth - 1, 1, CastleWidth - 1>>))

\* Castle.lavaG: the points of the cuboid that the draws keep, and the lava
\* at the corners under the roof
castleLavaG(o, lava) ==
    lava \cup Seen({ add(o, <<x * (CastleWidth + e), WallHeight - 1, z * (CastleWidth + e)>>) :
                       x \in {1, -1}, z \in {1, -1}, e \in {-1, 1} })

pedestalG(to) == seenCuboid(add(to, <<-R, -3, -R>>), add(to, <<R, -1, R>>))

\* pedestalCutoutG without the line through the middle of the pedestal
pedestalCutoutGCornersOnly(to) ==
    Seen(UNION { Elems(line3D(add(to, <<R * c[1], -3, R * c[2]>>),
                              add(to, <<R * c[1], -1, R * c[2]>>))) :
                   c \in { <<-1, -1>>, <<-1, 1>>, <<1, -1>>, <<1, 1>> } })

\* CastleTree.pedestalCutoutG
pedestalCutoutG(to) ==
    Seen(UNION { Elems(line3D(add(to, <<R * c[1], -3, R * c[2]>>),
                              add(to, <<R * c[1], -1, R * c[2]>>))) :
                   c \in { <<-1, -1>>, <<-1, 1>>, <<1, -1>>, <<1, 1>>, <<0, 0>> } })

\* CastleTree.leavesG
leavesG(to, th, kind) ==
    seenCylinder(add(to, <<-8, th - 9, -8>>), add(to, <<8, th + 5, 8>>),
                 (to[2] + th - 9)..(to[2] + th + 5), Section(kind, 8))

\* CastleTree.place: the k-th of the four placeBlock calls
treePlace(tr, th, kind, k) ==
    LET to == TreeO("CastleTree")
    IN  CASE k = 1 -> Write("end_stone_bricks", pedestalG(to))
          [] k = 2 -> Write("air", pedestalCutoutG(to))
          [] k = 3 -> Write("spruce_leaves", leavesG(to, th, kind))
          [] k = 4 -> Write("spruce_log", Seen(Elems(trunkG(tr, th))))

\* the cuboid whose points the k-th placeBlock call of Castle.place draws
LavaCells(c, k) ==
    IF k = 8 THEN basementLavaCells(add(c.o, <<0, -BasementHeight, 0>>))
    ELSE IF k = 22 THEN castleLavaCells(c.o)
    ELSE {}

\* Castle.place: the k-th of its 27 placeBlock calls
castlePlace(c, k, lava, tr, th) ==
    IF k <= 7 THEN outlinePlace(c.o, c.kind, k)
    ELSE IF k <= 17 THEN basementPlace(add(c.o, <<0, -BasementHeight, 0>>), lava, k - 7)
    ELSE IF k <= 21 THEN roofPlace(add(c.o, <<0, WallHeight + 1, 0>>), c.o, c.kind, k - 17)
    ELSE IF k = 22 THEN Write("lava", castleLavaG(c.o, lava))
    ELSE IF k <= 26 THEN treePlace(tr, th, c.kind, k - 22)
    ELSE Write("air", Seen({c.o}))

CastlePlaceCalls == 27

\* buildCastle up to castle.place: the CastleTree is about to be constructed
CastleInit ==
    /\ variant = "CastleTree"
    /\ maxTrunkHeight = BuiltTrunkHeight
    /\ tpc = "loop"
    /\ ty = 0
    /\ slice_ = InitialSlice
    /\ dropRate = 0
    /\ trunk = <<>>
    /\ trunkHeight = 0
    /\ trunkGenerator = <<>>
    /\ stream = <<>>
    /\ pos = 0
    /\ run = 1
    /\ first = <<>>
    /\ struct \in [class : {"Castle"}, o : {relativeCenter}, kind : CylinderKinds]
    /\ spc = <<"Castle.place", 1>>
    /\ writes = <<>>
    /\ GenIdle /\ BridgeIdle /\ BuildIdle /\ MainIdle

\* one placeBlock call of Castle.place, the tree being constructed
CastlePlaceBlock ==
    /\ struct.class = "Castle" /\ spc[1] = "Castle.place" /\ tpc = "done"
    /\ \E lava \in SUBSET LavaCells(struct, spc[2]) :
           writes' = Append(writes, castlePlace(struct, spc[2], lava, trunk, trunkHeight))
    /\ spc' = IF spc[2] < CastlePlaceCalls
              THEN <<"Castle.place", spc[2] + 1>>
              ELSE <<"placed", 0>>
    /\ UNCHANGED <<struct, genVars, bridgeVars, treeVars, buildVars, mainVars>>

CastleNext == CastleGrow \/ CastlePlaceBlock

SpecCastle == CastleInit /\ [][CastleNext]_vars

CastlePlaced == struct.class = "Castle" /\ spc[1] = "placed"

\* the position of the castle axis in layer y, and of the basement beacon
Axis(y) == <<struct.o[1], struct.o[2] + y, struct.o[3]>>
BeaconLayer == -BasementHeight + 2

\* the layers of the axis that some write of the castle names
AxisWritten == { y \in (-BasementHeight)..(WallHeight + CastleRoofHeight + 1) :
                   \E i \in DOMAIN writes : Axis(y) \in writes[i].positions }

LightPassing ==
    { "black_stained_glass_pane", "air", "water", "spruce_leaves", "glass" }

\* C24: after Castle.place, whatever the lava and trunk draws, every
\* position of the castle axis above the basement beacon that the castle
\* writes holds a glass pane, air, water, leaves or glass
C24_AxisLightPassing ==
    CastlePlaced =>
        /\ BlockAt(writes, Axis(BeaconLayer)) = "beacon"
        /\ \A y \in AxisWritten : y > BeaconLayer => BlockAt(writes, Axis(y)) \in LightPassing

\* the castle is placed; both lava draws kept their point of the axis, where
\* floor, netherite, pedestal and roof material were written too, and the
\* column east of the axis still holds netherite and trunk
C24_Witness ==
    /\ CastlePlaced
    /\ Axis(-BasementHeight + 1) \in writes[8].positions
    /\ Axis(1) \in writes[22].positions
    /\ \E i \in DOMAIN writes : writes[i].block = "base" /\ Axis(0) \in writes[i].positions
    /\ \E i \in DOMAIN writes :
           writes[i].block = "end_stone_bricks" /\ Axis(1) \in writes[i].positions
    /\ \E i \in DOMAIN writes :
           writes[i].block = "tinted_glass" /\ Axis(WallHeight + CastleRoofHeight) \in writes[i].positions
    /\ BlockAt(writes, Axis(-BasementHeight + 1)) = "netherite"
    /\ BlockAt(writes, add(Axis(-BasementHeight + 3), <<1, 0, 0>>)) = "netherite"
    /\ BlockAt(writes, add(Axis(4), <<1, 0, 0>>)) = "spruce_log"
    /\ BlockAt(writes, Axis(1)) = "air"
    /\ BlockAt(writes, Axis(WallHeight - 2)) = "spruce_leaves"

(***************************************************************************)
(* structs/interior.py: the lantern chains of the interiors.  struct holds *)
(* the fields of the interior of a tower as buildTowers constructs it      *)
(* (room radius 11, room height 8): its theme, district and origin, the    *)
(* rounding of fittingCylinder and lanternChainsPC.  The constructor draws *)
(* the chains; place is followed up to the call that places the lanterns,  *)
(* the calls after it place other blocks and read nothing of the chains.   *)
(***************************************************************************)
\* height of the TowerRoom that buildTowers constructs
RoomHeight == 8

\* Interior.radius and Interior.height
InteriorRadius == RoomRadius - 1
InteriorHeight == RoomHeight - 1

Themes == {"nostalgic", "crimson", "warped", "endgame"}

\* the argument of _fixLanternChains in the constructors
ChainCount(theme) ==
    CASE theme = "nostalgic" -> 3
      [] theme = "crimson"   -> 5
      [] theme = "warped"    -> 10
      [] theme = "endgame"   -> 20

\* Interior.xSign and Interior.zSign
interiorXSign(d) == IF d[2] = "w" THEN -1 ELSE 1
interiorZSign(d) == IF d[1] = "n" THEN -1 ELSE 1

\* the district as the string that triangle takes
districtTag(d) ==
    CASE d = <<"n", "w">> -> "nw"
      [] d = <<"n", "e">> -> "ne"
      [] d = <<"s", "w">> -> "sw"
      [] d = <<"s", "e">> -> "se"

\* the corners of the box of two corners given in any order
lowCorner(a, b) == <<min2(a[1], b[1]), min2(a[2], b[2]), min2(a[3], b[3])>>
highCorner(a, b) == <<max2(a[1], b[1]), max2(a[2], b[2]), max2(a[3], b[3])>>

\* NostalgicInterior.houseOutlineG
houseOutlineG(o, zS) ==
    cuboid3D(add(o, <<-3, 1, zS * 3>>), add(o, <<3, 5, zS * 9>>))
    \ cuboid3D(add(o, <<-2, 1, zS * 4>>), add(o, <<2, 4, zS * 9>>))

\* NostalgicGarden.treeLeavesG, s the sign of the garden
treeLeavesG(o, s, kind) ==
    LET a1 == add(o, <<-1, 3, s * (-2)>>)
        b1 == add(o, <<-7, 5, s * (-8)>>)
        a2 == add(o, <<-2, 6, s * (-3)>>)
        b2 == add(o, <<-6, 6, s * (-7)>>)
    IN  cylinderLayers(lowCorner(a1, b1), highCorner(a1, b1), Section(kind, 3))
        \cup cylinderLayers(lowCorner(a2, b2), highCorner(a2, b2), Section(kind, 2))
        \cup cuboid3D(add(o, <<-3, 7, s * (-4)>>), add(o, <<-5, 7, s * (-6)>>))

\* the origin of the ExoticGarden of district d in the interior at o
gardenO(o, d) == add(o, <<interiorXSign(d) * 3, 0, interiorZSign(d) * 3>>)

\* ExoticGarden.nyliumG
nyliumG(go, d) ==
    triangle(add(go, <<interiorXSign(d), 0, interiorZSign(d)>>), 6, districtTag(d))

\* ExoticGarden.hyphaeG
hyphaeG(go, d, h) == { add(p, <<0, h, 0>>) : p \in Elems(nyliumG(go, d)) }

\* ExoticGarden.boundsG
gardenBoundsG(go, d, h) ==
    LET xs == interiorXSign(d)
        zs == interiorZSign(d)
    IN  UNION { Elems(line3D(add(go, <<0, y, 0>>), add(go, <<xs * 6, y, 0>>)))
                \cup Elems(line3D(add(go, <<0, y, 0>>), add(go, <<0, y, zs * 6>>))) :
                  y \in {0, h} }
        \cup UNION { Elems(line3D(add(go, <<xs * c[1], 1, zs * c[2]>>),
                                  add(go, <<xs * c[1], h - 1, zs * c[2]>>))) :
                       c \in { <<0, 6>>, <<6, 0>> } }

\* invalidLanternPC of the three classes
invalidLanternPC(in) ==
    CASE in.theme = "nostalgic" ->
            { <<p[1], in.o[2] + InteriorHeight, p[3]>> :
                p \in houseOutlineG(in.o, interiorZSign(in.district))
                      \cup treeLeavesG(in.o, interiorZSign(in.district), in.kind) }
      [] in.theme \in {"crimson", "warped"} ->
            UNION { hyphaeG(gardenO(in.o, d), d, InteriorHeight)
                    \cup gardenBoundsG(gardenO(in.o, d), d, InteriorHeight) : d \in Districts }
      [] in.theme = "endgame" -> {}

\* the ceiling points of _fixLanternChains before the filter
ceilingDisc(in) ==
    LET r == InteriorRadius - 3
        h == InteriorHeight
    IN  fittingCylinder(add(in.o, <<-r, h, -r>>), add(in.o, <<r, h, r>>), Section(in.kind, r))

\* candidates of _fixLanternChains
candidates(in) ==
    LET invalid == invalidLanternPC(in)
        valid(c) == c \notin invalid
    IN  SelectSeq(ceilingDisc(in), valid)

\* how many start indices and strides the sampled index draws take
ChoiceSamples == 2

\* sampled sequences of n indices below len: from a start, a stride apart
IndexSamples(len, n) ==
    { [k \in 1..n |-> (((s * len) \div ChoiceSamples) + (k - 1) * step) % len] :
        s \in 0..(ChoiceSamples - 1), step \in 0..ChoiceSamples }

\* np.random.choice(len, n, replace = True): an index may come twice
choiceWithReplacement(len, n) == IndexSamples(len, n)

\* np.random.choice(len, n, replace = False): n different indices
choice(len, n) ==
    { s \in IndexSamples(len, n) : \A j, k \in 1..n : j # k => s[j] # s[k] }

\* the values of np.random.randint(1, 4) over the n iterations: sampled
\* streams that start anywhere and repeat, rise or fall
RandintStreams(n) ==
    { [k \in 1..n |-> 1 + ((a + (k - 1) * b) % 3)] : a \in 0..2, b \in 0..2 }

\* [o - Y * i for i in range(len)]
chain(o, len) == [i \in 1..len |-> add(o, <<0, -(i - 1), 0>>)]

\* Interior.lanternChainsG and Interior.lanternsG
lanternChainsG(pcs) == Flatten(pcs)
lanternsG(pcs) == [k \in DOMAIN pcs |-> add(pcs[k][Len(pcs[k])], <<0, -1, 0>>)]

\* Interior.floorG, plinthG and ceilingG; EndGameInterior has its own ceilingG
floorG(in) ==
    LET r == InteriorRadius
    IN  Elems(fittingCylinder(add(in.o, <<-r, 0, -r>>), add(in.o, <<r, 0, r>>), Section(in.kind, r)))
plinthG(in) ==
    LET r == InteriorRadius
    IN  Elems(fittingCylinder(add(in.o, <<-r, 0, -r>>), add(in.o, <<r, 0, r>>),
                              TubeSection(in.kind, r)))
ceilingG(in) ==
    LET r == InteriorRadius
        h == InteriorHeight
    IN  IF in.theme = "endgame"
        THEN Elems(fittingCylinder(add(in.o, <<-(r - 1), h, -(r - 1)>>),
                                   add(in.o, <<r - 1, h, r - 1>>), Section(in.kind, r - 1)))
        ELSE { p \in Elems(fittingCylinder(add(in.o, <<-r, h, -r>>), add(in.o, <<r, h, r>>),
                                           Section(in.kind, r))) :
                 p[1] # in.o[1] + interiorXSign(in.district) * r }

\* EndGameInterior.lichenG
lichenG(in) ==
    LET r == InteriorRadius
    IN  { p \in cylinderLayers(add(in.o, <<-r, 1, -r>>), add(in.o, <<r, InteriorHeight, r>>),
                               TubeSection(in.kind, r)) :
            p[1] # in.o[1] + interiorXSign(in.district) * r }

\* Table.place of the deepslate table of EndGameInterior: its five calls
tablePlace(o, k) ==
    CASE k = 1 -> Write("deepslate_tiles", cuboid3D(add(o, <<-1, -1, -1>>), add(o, <<1, -1, 1>>)))
      [] k = 2 -> Write("air", cuboid3D(add(o, <<-1, 0, -1>>), add(o, <<1, 0, 1>>)))
      [] k = 3 -> Write("deepslate_tile_wall",
                        { add(o, <<x, 0, z>>) : x \in {-1, 1}, z \in {-1, 1} })
      [] k = 4 -> Write("deepslate_tile_slab", cuboid3D(add(o, <<-1, 1, -1>>), add(o, <<1, 1, 1>>)))
      [] k = 5 -> Write("potted_wither_rose", {add(o, <<0, 2, 0>>)})

\* the materials of floor, plinth and lantern of a theme
floorBlock(theme) ==
    CASE theme = "nostalgic" -> "birch_slab"
      [] theme = "crimson"   -> "crimson_slab"
      [] theme = "warped"    -> "warped_slab"
      [] theme = "endgame"   -> "deepslate_tile_slab"
plinthBlock(theme) ==
    CASE theme = "nostalgic" -> "birch_planks"
      [] theme = "crimson"   -> "crimson_planks"
      [] theme = "warped"    -> "warped_planks"
      [] theme = "endgame"   -> "deepslate_tiles"
lanternBlock(theme) ==
    IF theme \in {"nostalgic", "crimson"} THEN "lantern" ELSE "soul_lantern"

\* the position in place of the call that places the chains
ChainCall(theme) == IF theme = "endgame" THEN 10 ELSE 4

\* place of the three classes: the k-th placeBlock call, up to the lanterns
interiorPlace(in, k) ==
    IF k = 1 THEN Write(floorBlock(in.theme), floorG(in))
    ELSE IF k = 2 THEN Write(plinthBlock(in.theme), plinthG(in))
    ELSE IF k = 3 THEN Write("base_slab", ceilingG(in))
    ELSE IF k = ChainCall(in.theme) THEN Write("chain", Elems(lanternChainsG(in.lanternChainsPC)))
    ELSE IF k = ChainCall(in.theme) + 1
         THEN Write(lanternBlock(in.theme), Elems(lanternsG(in.lanternChainsPC)))
    ELSE IF k = 4 THEN Write("glow_lichen", lichenG(in))
    ELSE tablePlace(in.o, k - 4)

\* tower.o of the towers the interiors are made for
InteriorOrigins == { <<0, 0, 0>>, <<-4, 64, -7>> }

InteriorInit ==
    /\ struct \in [class : {"Interior"}, theme : Themes, district : Districts,
                   o : InteriorOrigins,
                   kind : CylinderKinds, lanternChainsPC : {<<>>}]
    /\ spc = <<"_fixLanternChains", 0>>
    /\ writes = <<>>
    /\ GenIdle /\ BridgeIdle /\ TreeIdle /\ BuildIdle /\ MainIdle

\* _fixLanternChains(n), called by the constructor
FixLanternChains ==
    /\ spc[1] = "_fixLanternChains"
    /\ \E cs \in {candidates(struct)} :
           LET n == ChainCount(struct.theme)
           IN  \E picks \in choice(Len(cs), n) : \E lens \in RandintStreams(n) :
                   struct' = [struct EXCEPT !.lanternChainsPC =
                                 [k \in 1..n |-> chain(cs[picks[k] + 1], lens[k])]]
    /\ spc' = <<"Interior.place", 1>>
    /\ UNCHANGED <<writes, genVars, bridgeVars, treeVars, buildVars, mainVars>>

\* one placeBlock call of place
InteriorPlaceBlock ==
    /\ spc[1] = "Interior.place"
    /\ writes' = Append(writes, interiorPlace(struct, spc[2]))
    /\ spc' = IF spc[2] < ChainCall(struct.theme) + 1
              THEN <<"Interior.place", spc[2] + 1>>
              ELSE <<"lanterns", 0>>
    /\ UNCHANGED <<struct, genVars, bridgeVars, treeVars, buildVars, mainVars>>

InteriorNext == FixLanternChains \/ InteriorPlaceBlock

SpecInterior == InteriorInit /\ [][InteriorNext]_vars

LanternsPlaced == struct.class = "Interior" /\ spc[1] = "lanterns"

\* C27: in every interior each chain hangs from a point of the ceiling disc
\* (layer o.y + height, half-width radius - 3) that is not in the invalid
\* point set of the interior, no two chains hang from the same point, there
\* are as many chains as the theme asks for (3, 5, 10 or 20), the links of a
\* chain go down from that point, and the lanterns placed are the points
\* directly below the lowest links
C27_LanternChains ==
    LanternsPlaced =>
        LET pcs == struct.lanternChainsPC
            n   == ChainCount(struct.theme)
            ch  == writes[ChainCall(struct.theme)]
            la  == writes[ChainCall(struct.theme) + 1]
            disc    == Elems(ceilingDisc(struct))
            invalid == invalidLanternPC(struct)
        IN  /\ Len(pcs) = n
            /\ \A k \in 1..n :
                  /\ Len(pcs[k]) \in 1..3
                  /\ pcs[k][1] \in disc
                  /\ pcs[k][1][2] = struct.o[2] + InteriorHeight
                  /\ abs(pcs[k][1][1] - struct.o[1]) <= InteriorRadius - 3
                  /\ abs(pcs[k][1][3] - struct.o[3]) <= InteriorRadius - 3
                  /\ pcs[k][1] \notin invalid
                  /\ \A i \in 1..Len(pcs[k]) :
                        /\ pcs[k][i] = add(pcs[k][1], <<0, -(i - 1), 0>>)
                        /\ pcs[k][i] \in ch.positions
                  /\ add(pcs[k][1], <<0, -Len(pcs[k]), 0>>) \in la.positions
            /\ \A j, k \in 1..n : j # k => pcs[j][1] # pcs[k][1]
            /\ ch.block = "chain" /\ la.block = lanternBlock(struct.theme)
            /\ Cardinality(la.positions) = n
            /\ la.positions = { add(pcs[k][1], <<0, -Len(pcs[k]), 0>>) : k \in 1..n }

\* the lanterns of a warped interior are placed: ten chains, of one and of
\* three links among them, and some point of the ceiling disc is invalid
C27_Witness ==
    /\ LanternsPlaced /\ struct.theme = "warped"
    /\ Len(struct.lanternChainsPC) = 10
    /\ \E j, k \in 1..10 : Len(struct.lanternChainsPC[j]) = 1 /\ Len(struct.lanternChainsPC[k]) = 3
    /\ Elems(ceilingDisc(struct)) \cap invalidLanternPC(struct) # {}
    /\ Len(candidates(struct)) < Len(ceilingDisc(struct))

====
